---- MODULE Spec2Model ----
(***************************************************************************)
(* Model of the notification service's delivery and consumption pipeline:  *)
(*   - retryConnection          (libs/core .. connection-retry.util.ts)    *)
(*   - NotificationHandler      (apps/lambda-processor .. handlers)        *)
(*   - SqsSubscriberService     (apps/lambda-processor .. services)        *)
(*   - SnsProviderAdapter / SqsProviderAdapter (libs/provider-adapters)    *)
(*                                                                         *)
(* Exceptions are modelled as result records with a `threw` flag and an    *)
(* `err` record; external collaborators (KMS, Salesforce sink, SQS, SNS)   *)
(* are inputs chosen by the environment.                                   *)
(***************************************************************************)
EXTENDS Integers, Sequences, FiniteSets, TLC

(***************************************************************************)
(* Bounds of the model.                                                    *)
(***************************************************************************)
MaxMsgs == 3
MaxCycles == 2
MaxLoops == 2
MaxHeld == 3
MaxRetriesBound == 4
MaxOkAt == 5

(***************************************************************************)
(* Errors.  name = constructor name, code = errorCode of a BaseError       *)
(* ("none" for a plain Error), origin = the place that raised it.          *)
(***************************************************************************)
NoError == [name |-> "none", code |-> "none", origin |-> "none"]

PlainError(origin) == [name |-> "Error", code |-> "none", origin |-> origin]

TypeErrorAt(origin) == [name |-> "TypeError", code |-> "none", origin |-> origin]

RangeErrorAt(origin) == [name |-> "RangeError", code |-> "none", origin |-> origin]

SEND_FAILED == "NOTIFICATION_003"

INVALID_EVENT == "NOTIFICATION_004"

OPERATION_FAILED == "PROVIDER_003"

CONFIG_MISSING == "PROVIDER_001"

invalidEvent(details) ==
  [name |-> "NotificationError", code |-> INVALID_EVENT, origin |-> details]

sendFailed(error) ==
  [name |-> "NotificationError", code |-> SEND_FAILED, origin |-> error.origin]

operationFailed(operation) ==
  [name |-> "ProviderError", code |-> OPERATION_FAILED, origin |-> operation]

configMissing(configKey) ==
  [name |-> "ProviderError", code |-> CONFIG_MISSING, origin |-> configKey]

(***************************************************************************)
(* JSON texts and values.  A text is either well-formed JSON carrying the  *)
(* value it denotes (canon = FALSE for a text that differs from the        *)
(* output of JSON.stringify, e.g. by white space), the empty string, or a  *)
(* string that is not JSON.                                                *)
(***************************************************************************)
EmptyText == [text |-> "empty"]

GarbageText == [text |-> "garbage"]

JsonText(v, canon) == [text |-> "json", val |-> v, canon |-> canon]

JSONparse(t) ==
  IF t.text = "json" THEN [ok |-> TRUE, val |-> t.val] ELSE [ok |-> FALSE, val |-> [kind |-> "undefined"]]

JSONstringify(v) == JsonText(v, TRUE)

Null == [kind |-> "null"]

Num(n) == [kind |-> "number", n |-> n]

Absent == [s |-> "absent"]

StrField(t) == [s |-> "string", text |-> t]

\* JavaScript truthiness of a JSON value
Truthy(v) ==
  CASE v.kind = "null" -> FALSE
    [] v.kind = "number" -> v.n # 0
    [] OTHER -> TRUE

\* truthiness of an optional string-valued property
TruthyField(f) == f.s = "string" /\ f.text.text # "empty"

APPLICATION_UPDATE == "com.tyfone.nao.application.update"

APPLICATION_CREATE == "com.tyfone.nao.application.create"

USER_UPDATE == "user.update"

\* EventName.USER_UPDATE of the core library, the key of the producer's topic map
EventName_USER_UPDATE == "com.tyfone.nao.user.update"

(***************************************************************************)
(* Values of payload.data and the bytes they hold.                         *)
(***************************************************************************)
\* the CiphertextBlob the service returns for plaintext bytes under a context
Ciphertext(plain, ctx) == [bytes |-> "ciphertext", plain |-> plain, ctx |-> ctx]

\* bytes that are not a ciphertext of the service
NotCiphertext == [bytes |-> "other"]

\* <buffer>.toString('base64'): the string that holds the bytes in base64
Base64Encode(b) == [d |-> "string", content |-> b]

\* payload.data values.  d is the form of the JSON value: a plain object, a
\* string, an array of byte values, an object with a length property that
\* a Buffer can hold and indexed byte values, the JSON form of a Buffer
\* ({type: 'Buffer', data: [...]}), an object whose length is larger than
\* a Buffer can be, or an object with a property valueOf that is truthy
\* and no function; content is the bytes Buffer.from reads from the value.
DataObject == [d |-> "object"]

\* {length: 2^53, ...}
DataOversized == [d |-> "oversized"]

\* {valueOf: 1, ...}, with or without a length
DataBadValueOf == [d |-> "badvalueof"]

\* a string that is no base64 text of a ciphertext
DataString == Base64Encode(NotCiphertext)

ByteArray(b) == [d |-> "array", content |-> b]

ArrayLike(b) == [d |-> "arraylike", content |-> b]

BufferJson(b) == [d |-> "bufferjson", content |-> b]

DataArray == ByteArray(NotCiphertext)

DataArrayLike == ArrayLike(NotCiphertext)

\* Buffer.from(response.CiphertextBlob).toString('base64')
DataCipher(plain, ctx) == Base64Encode(Ciphertext(plain, ctx))

\* the JSON type of a payload.data value
JsonType(data) ==
  CASE data.d = "string" -> "string"
    [] data.d = "array" -> "array"
    [] OTHER -> "object"

\* Buffer.from(<value>, 'base64'): a string is decoded; of an object,
\* value.valueOf is called first (TypeError when it is no function), then
\* an array, an object with a length and the JSON form of a Buffer are
\* copied (RangeError when the length cannot be allocated), and any other
\* object raises a TypeError
BufferFrom(data) ==
  CASE data.d = "badvalueof" ->
         [threw |-> TRUE, err |-> TypeErrorAt("Buffer.from"), val |-> NotCiphertext]
    [] data.d = "oversized" ->
         [threw |-> TRUE, err |-> RangeErrorAt("Buffer.from"), val |-> NotCiphertext]
    [] data.d = "object" ->
         [threw |-> TRUE, err |-> TypeErrorAt("Buffer.from"), val |-> NotCiphertext]
    [] OTHER -> [threw |-> FALSE, err |-> NoError, val |-> data.content]

KmsCanDecrypt(blob, context) == blob.bytes = "ciphertext" /\ blob.ctx = context

(***************************************************************************)
(* validateNotificationEvent: the required properties in the order in      *)
(* which the code tests them.  An object carries the set `falsy` of the    *)
(* required properties that are absent or falsy in it.                     *)
(***************************************************************************)
RequiredPaths ==
  << "id", "header", "payload",
     "header.event_name", "header.product", "header.product_version",
     "header.event_version", "header.key_handle", "header.timestamp",
     "header.callback_ref", "header.alg", "header.typ", "header.tenant",
     "header.tenant.financialInstitutionId", "header.tenant.appId",
     "header.tenant.environment",
     "payload.metadata", "payload.data", "payload.activityBy",
     "payload.metadata.docker_container_id", "payload.metadata.fi_id",
     "payload.metadata.config_version", "payload.metadata.context",
     "payload.metadata.context.deviceId", "payload.metadata.context.ip_address",
     "payload.metadata.context.user_agent", "payload.metadata.context.hostname",
     "payload.metadata.context.language",
     "payload.activityBy.source", "payload.activityBy.identifier",
     "payload.activityBy.metadata" >>

PathSet == {RequiredPaths[i] : i \in 1..Len(RequiredPaths)}

FirstFalsy(falsy) ==
  LET idx == {i \in 1..Len(RequiredPaths) : RequiredPaths[i] \in falsy}
  IN  IF idx = {} THEN "none"
      ELSE RequiredPaths[CHOOSE i \in idx : \A j \in idx : i <= j]

\* variant: only the presence of the event is tested
validateEventPresenceOnly(event) ==
  IF ~Truthy(event) THEN [threw |-> TRUE, err |-> invalidEvent("null or undefined")]
  ELSE IF event.kind # "object" THEN [threw |-> TRUE, err |-> invalidEvent("id")]
  ELSE [threw |-> FALSE, err |-> NoError]

validateNotificationEvent(event) ==
  IF ~Truthy(event) THEN [threw |-> TRUE, err |-> invalidEvent("null or undefined")]
  ELSE IF event.kind # "object" THEN [threw |-> TRUE, err |-> invalidEvent("id")]
  ELSE IF FirstFalsy(event.falsy) # "none"
       THEN [threw |-> TRUE, err |-> invalidEvent(FirstFalsy(event.falsy))]
  ELSE [threw |-> FALSE, err |-> NoError]

(***************************************************************************)
(* ValidationService.validateEvent: the compiled notificationEventSchema   *)
(* applied with allErrors.  SchemaFields lists the required properties of  *)
(* the schema with the object that holds each of them and the JSON pointer *)
(* of the property; the schemas of an object are applied in the order      *)
(* required, additionalProperties, properties.  In the candidates below a  *)
(* property of `falsy` is an absent property.                              *)
(***************************************************************************)
Field(path, parent, name, pointer) ==
  [path |-> path, parent |-> parent, name |-> name, pointer |-> pointer]

SchemaFields ==
  << Field("id", "", "id", "/id"),
     Field("header", "", "header", "/header"),
     Field("payload", "", "payload", "/payload"),
     Field("header.event_name", "header", "event_name", "/header/event_name"),
     Field("header.product", "header", "product", "/header/product"),
     Field("header.product_version", "header", "product_version", "/header/product_version"),
     Field("header.event_version", "header", "event_version", "/header/event_version"),
     Field("header.key_handle", "header", "key_handle", "/header/key_handle"),
     Field("header.timestamp", "header", "timestamp", "/header/timestamp"),
     Field("header.callback_ref", "header", "callback_ref", "/header/callback_ref"),
     Field("header.alg", "header", "alg", "/header/alg"),
     Field("header.typ", "header", "typ", "/header/typ"),
     Field("header.tenant", "header", "tenant", "/header/tenant"),
     Field("header.tenant.financialInstitutionId", "header.tenant", "financialInstitutionId",
           "/header/tenant/financialInstitutionId"),
     Field("header.tenant.appId", "header.tenant", "appId", "/header/tenant/appId"),
     Field("header.tenant.environment", "header.tenant", "environment",
           "/header/tenant/environment"),
     Field("payload.metadata", "payload", "metadata", "/payload/metadata"),
     Field("payload.data", "payload", "data", "/payload/data"),
     Field("payload.activityBy", "payload", "activityBy", "/payload/activityBy"),
     Field("payload.metadata.docker_container_id", "payload.metadata", "docker_container_id",
           "/payload/metadata/docker_container_id"),
     Field("payload.metadata.fi_id", "payload.metadata", "fi_id", "/payload/metadata/fi_id"),
     Field("payload.metadata.config_version", "payload.metadata", "config_version",
           "/payload/metadata/config_version"),
     Field("payload.metadata.context", "payload.metadata", "context",
           "/payload/metadata/context"),
     Field("payload.metadata.context.deviceId", "payload.metadata.context", "deviceId",
           "/payload/metadata/context/deviceId"),
     Field("payload.metadata.context.ip_address", "payload.metadata.context", "ip_address",
           "/payload/metadata/context/ip_address"),
     Field("payload.metadata.context.user_agent", "payload.metadata.context", "user_agent",
           "/payload/metadata/context/user_agent"),
     Field("payload.metadata.context.hostname", "payload.metadata.context", "hostname",
           "/payload/metadata/context/hostname"),
     Field("payload.metadata.context.language", "payload.metadata.context", "language",
           "/payload/metadata/context/language"),
     Field("payload.activityBy.source", "payload.activityBy", "source",
           "/payload/activityBy/source"),
     Field("payload.activityBy.identifier", "payload.activityBy", "identifier",
           "/payload/activityBy/identifier"),
     Field("payload.activityBy.metadata", "payload.activityBy", "metadata",
           "/payload/activityBy/metadata") >>

FieldOf(path) == SchemaFields[CHOOSE i \in 1..Len(SchemaFields) : SchemaFields[i].path = path]

\* instancePath of the object at a path ("" is the candidate itself)
Pointer(path) == IF path = "" THEN "" ELSE FieldOf(path).pointer

\* the object at a path exists in the candidate
RECURSIVE Present(_, _)
Present(event, path) ==
  path = "" \/ (path \notin event.falsy /\ Present(event, FieldOf(path).parent))

EVENT_VALIDATION_FAILED == "NOT2002"

\* the application error made from one AJV error
ValidationError(path, keyword, param) ==
  [errorCode |-> EVENT_VALIDATION_FAILED, path |-> path, keyword |-> keyword, param |-> param]

\* the `required` errors of the objects listed in parents, in schema order
RECURSIVE RequiredErrors(_, _, _)
RequiredErrors(event, parents, i) ==
  IF i > Len(SchemaFields) THEN <<>>
  ELSE LET f == SchemaFields[i]
       IN  (IF f.parent \in parents /\ f.path \in event.falsy /\ Present(event, f.parent)
            THEN <<ValidationError(Pointer(f.parent), "required", f.name)>>
            ELSE <<>>)
           \o RequiredErrors(event, parents, i + 1)

\* additionalProperties: false on the candidate itself
AdditionalErrors(event) ==
  (IF event.Type # "absent"
   THEN <<ValidationError("", "additionalProperties", "Type")>> ELSE <<>>)
  \o (IF event.Message.s # "absent"
      THEN <<ValidationError("", "additionalProperties", "Message")>> ELSE <<>>)

\* payload.data: { type: 'object' }
DataTypeErrors(event) ==
  IF Present(event, "payload.data") /\ JsonType(event.data) # "object"
  THEN <<ValidationError("/payload/data", "type", "object")>>
  ELSE <<>>

\* variant: only the required properties of the candidate itself are tested
validateEventTopLevelOnly(event) ==
  IF event.kind # "object" THEN <<ValidationError("", "type", "object")>>
  ELSE RequiredErrors(event, {""}, 1) \o AdditionalErrors(event)

validateEvent(event) ==
  IF event.kind # "object" THEN <<ValidationError("", "type", "object")>>
  ELSE RequiredErrors(event, {""}, 1)
       \o AdditionalErrors(event)
       \o RequiredErrors(event, {"header", "header.tenant"}, 1)
       \o RequiredErrors(event, {"payload", "payload.metadata", "payload.metadata.context"}, 1)
       \o DataTypeErrors(event)
       \o RequiredErrors(event, {"payload.activityBy"}, 1)

(***************************************************************************)
(* parseSnsMessage / parseNotificationEvent                                *)
(***************************************************************************)
parseSnsMessage(body) ==
  LET p == JSONparse(body)
  IN  IF p.ok THEN [threw |-> FALSE, err |-> NoError, val |-> p.val]
      ELSE [threw |-> TRUE, err |-> invalidEvent("parseSnsMessage"), val |-> p.val]

\* variant: the body is always taken as the event itself
parseNotificationEventNoUnwrap(snsMessage) ==
  IF snsMessage.kind = "null"
  THEN [threw |-> TRUE, err |-> PlainError("parseNotificationEvent"), val |-> snsMessage]
  ELSE [threw |-> FALSE, err |-> NoError, val |-> snsMessage]

parseNotificationEvent(snsMessage) ==
  IF snsMessage.kind = "null"
  THEN \* property access on null raises a TypeError inside the try block
       [threw |-> TRUE, err |-> PlainError("parseNotificationEvent"), val |-> snsMessage]
  ELSE IF snsMessage.kind = "object" /\ snsMessage.Type = "Notification"
          /\ TruthyField(snsMessage.Message)
  THEN LET p == JSONparse(snsMessage.Message.text)
       IN  IF p.ok THEN [threw |-> FALSE, err |-> NoError, val |-> p.val]
           ELSE [threw |-> TRUE, err |-> PlainError("parseNotificationEvent"), val |-> p.val]
  ELSE [threw |-> FALSE, err |-> NoError, val |-> snsMessage]

(***************************************************************************)
(* retryConnection.  The operation is characterised by okAt, the number of *)
(* the first invocation that succeeds (0: it never succeeds).  calls is    *)
(* the number of invocations made, sleeps the delays waited, in order.     *)
(***************************************************************************)
Min(a, b) == IF a <= b THEN a ELSE b

\* variant: the exhaustion test uses > instead of >=
RECURSIVE RetryLoopLateExit(_, _, _, _, _)
RetryLoopLateExit(attempts, currentDelay, calls, sleeps, o) ==
  IF attempts < o.maxRetries
  THEN IF calls + 1 = o.okAt
       THEN [threw |-> FALSE, err |-> NoError, calls |-> calls + 1, sleeps |-> sleeps]
       ELSE IF attempts + 1 > o.maxRetries
       THEN [threw |-> TRUE, err |-> PlainError("retryConnection: after maxRetries attempts"),
             calls |-> calls + 1, sleeps |-> sleeps]
       ELSE RetryLoopLateExit(attempts + 1, Min(currentDelay * o.backoffFactor, o.maxDelay),
                              calls + 1, Append(sleeps, currentDelay), o)
  ELSE [threw |-> TRUE, err |-> PlainError("retryConnection: loop exit"),
        calls |-> calls, sleeps |-> sleeps]

RECURSIVE RetryLoop(_, _, _, _, _)
RetryLoop(attempts, currentDelay, calls, sleeps, o) ==
  IF attempts < o.maxRetries
  THEN IF calls + 1 = o.okAt
       THEN [threw |-> FALSE, err |-> NoError, calls |-> calls + 1, sleeps |-> sleeps]
       ELSE IF attempts + 1 >= o.maxRetries
       THEN [threw |-> TRUE, err |-> PlainError("retryConnection: after maxRetries attempts"),
             calls |-> calls + 1, sleeps |-> sleeps]
       ELSE RetryLoop(attempts + 1, Min(currentDelay * o.backoffFactor, o.maxDelay),
                      calls + 1, Append(sleeps, currentDelay), o)
  ELSE [threw |-> TRUE, err |-> PlainError("retryConnection: loop exit"),
        calls |-> calls, sleeps |-> sleeps]

\* variant: the operation is tried once before the loop test
retryConnectionTryFirst(o) ==
  RetryLoop(0, o.initialDelay, 0, <<>>,
            IF o.maxRetries < 1 THEN [o EXCEPT !.maxRetries = 1] ELSE o)

retryConnection(o) == RetryLoop(0, o.initialDelay, 0, <<>>, o)

DefaultMaxRetries == 5

DefaultInitialDelay == 1000

DefaultMaxDelay == 30000

DefaultBackoffFactor == 2

\* the options every request-path caller passes: maxRetries 3, initialDelay 1000
RequestRetries == 3

RequestInitialDelay == 1000

RequestOptions(okAt) ==
  [okAt |-> okAt, maxRetries |-> RequestRetries, initialDelay |-> RequestInitialDelay,
   maxDelay |-> DefaultMaxDelay, backoffFactor |-> DefaultBackoffFactor]

(***************************************************************************)
(* KmsEncryptionService.  A string handed to encrypt is turned into bytes  *)
(* by Buffer.from (UTF-8, an unpaired surrogate becomes U+FFFD) and the    *)
(* bytes returned by the service are turned into a string by               *)
(* toString('utf-8').  The ciphertext returned by the service is handed    *)
(* out as its base64 text, and decrypt turns its argument into bytes with  *)
(* Buffer.from(<value>, 'base64'); the key-management service decrypts a   *)
(* ciphertext only under the context it was encrypted with.                *)
(* kmsOkAt is the first request the service would answer (transient        *)
(* failures before).                                                       *)
(***************************************************************************)
\* a string holding an unpaired surrogate, and the same string with U+FFFD
\* in its place
SurrogateText == [text |-> "surrogate"]

ReplacedText == [text |-> "replaced"]

\* Buffer.from(<string>)
Utf8Encode(t) == [bytes |-> "utf8", of |-> IF t = SurrogateText THEN ReplacedText ELSE t]

\* a buffer whose bytes are not the UTF-8 encoding of any string
BinaryBytes == [bytes |-> "binary"]

\* <buffer>.toString('utf-8')
Utf8Decode(b) == IF b.bytes = "utf8" THEN b.of ELSE ReplacedText

IsString(data) == "text" \in DOMAIN data

\* the service takes a plaintext of at least one byte; whether a given
\* endpoint takes the empty plaintext is acceptsEmpty
KmsCanEncrypt(plaintext, acceptsEmpty) == plaintext # Utf8Encode(EmptyText) \/ acceptsEmpty

KmsResult(threw, err, val, kmsCalls, command) ==
  [threw |-> threw, err |-> err, val |-> val, kmsCalls |-> kmsCalls, command |-> command]

\* variant: the environment is left out of the context sent to the service
encryptPartialContext(data, keyId, envKeyId, context, kmsOkAt, acceptsEmpty) ==
  LET effectiveKeyId == IF keyId # "" THEN keyId ELSE envKeyId
      dataBuffer == IF IsString(data) THEN Utf8Encode(data) ELSE data
      sent == [context EXCEPT !.environment = ""]
      command == [KeyId |-> effectiveKeyId, Plaintext |-> dataBuffer,
                  EncryptionContext |-> sent]
      r == retryConnection(RequestOptions(
             IF KmsCanEncrypt(dataBuffer, acceptsEmpty) THEN kmsOkAt ELSE 0))
  IN  IF effectiveKeyId = ""
      THEN KmsResult(TRUE, PlainError("Missing KMS key ID"), DataString, 0, <<>>)
      ELSE IF r.threw
      THEN KmsResult(TRUE, r.err, DataString, r.calls, <<command>>)
      ELSE KmsResult(FALSE, NoError, Base64Encode(Ciphertext(dataBuffer, sent)), r.calls,
                     <<command>>)

encrypt(data, keyId, envKeyId, context, kmsOkAt, acceptsEmpty) ==
  LET effectiveKeyId == IF keyId # "" THEN keyId ELSE envKeyId
      dataBuffer == IF IsString(data) THEN Utf8Encode(data) ELSE data
      command == [KeyId |-> effectiveKeyId, Plaintext |-> dataBuffer,
                  EncryptionContext |-> context]
      r == retryConnection(RequestOptions(
             IF KmsCanEncrypt(dataBuffer, acceptsEmpty) THEN kmsOkAt ELSE 0))
  IN  IF effectiveKeyId = ""
      THEN KmsResult(TRUE, PlainError("Missing KMS key ID"), DataString, 0, <<>>)
      ELSE IF r.threw
      THEN KmsResult(TRUE, r.err, DataString, r.calls, <<command>>)
      ELSE KmsResult(FALSE, NoError, Base64Encode(Ciphertext(dataBuffer, context)), r.calls,
                     <<command>>)

decrypt(encryptedData, context, kmsOkAt) ==
  LET dataBuffer == BufferFrom(encryptedData)
      command == [CiphertextBlob |-> dataBuffer.val, EncryptionContext |-> context]
      r == retryConnection(RequestOptions(
             IF KmsCanDecrypt(dataBuffer.val, context) THEN kmsOkAt ELSE 0))
  IN  IF dataBuffer.threw
      THEN \* raised before any request is made
           KmsResult(TRUE, dataBuffer.err, GarbageText, 0, <<>>)
      ELSE IF r.threw
      THEN KmsResult(TRUE, r.err, GarbageText, r.calls, <<command>>)
      ELSE KmsResult(FALSE, NoError, Utf8Decode(dataBuffer.val.plain), r.calls, <<command>>)

generateDataKey(keyId, envKeyId, context, kmsOkAt) ==
  LET effectiveKeyId == IF keyId # "" THEN keyId ELSE envKeyId
      command == [KeyId |-> effectiveKeyId, KeySpec |-> "AES_256",
                  EncryptionContext |-> context]
      r == retryConnection(RequestOptions(kmsOkAt))
  IN  IF effectiveKeyId = ""
      THEN KmsResult(TRUE, PlainError("Missing KMS key ID"), DataString, 0, <<>>)
      ELSE IF r.threw
      THEN KmsResult(TRUE, r.err, DataString, r.calls, <<command>>)
      ELSE KmsResult(FALSE, NoError,
                     [plaintextKey |-> "key", encryptedKey |-> Ciphertext("key", context)],
                     r.calls, <<command>>)

(***************************************************************************)
(* processPayload / decryptAndParsePayload                                 *)
(***************************************************************************)
\* variant: the tenant object itself is used as the context
EncryptionContextOfTenantObject(event) == event.tenant

EncryptionContextOf(event) ==
  [financialInstitutionId |-> event.tenant.financialInstitutionId,
   appId |-> event.tenant.appId,
   environment |-> event.tenant.environment]

decryptAndParsePayload(event, kmsOkAt) ==
  LET encryptionContext == EncryptionContextOf(event)
      call == [data |-> event.data, context |-> encryptionContext]
      dec == decrypt(event.data, encryptionContext, kmsOkAt)
      parsed == JSONparse(dec.val)
  IN  IF dec.threw
      THEN [threw |-> TRUE, err |-> sendFailed(dec.err), payload |-> Null,
            decryptCalls |-> <<call>>, kmsCalls |-> dec.kmsCalls]
      ELSE IF ~parsed.ok
      THEN [threw |-> TRUE, err |-> sendFailed(invalidEvent("decrypted payload")),
            payload |-> Null, decryptCalls |-> <<call>>, kmsCalls |-> dec.kmsCalls]
      ELSE [threw |-> FALSE, err |-> NoError, payload |-> parsed.val,
            decryptCalls |-> <<call>>, kmsCalls |-> dec.kmsCalls]

\* variant: decrypt is attempted first and the plain data is the fallback
processPayloadAttemptThenFallback(event, encryptionEnabled, kmsOkAt) ==
  LET d == decryptAndParsePayload(event, kmsOkAt)
  IN  IF d.threw
      THEN [threw |-> FALSE, err |-> NoError,
            payload |-> [kind |-> "wrapper", data |-> event.data],
            decryptCalls |-> d.decryptCalls, kmsCalls |-> d.kmsCalls]
      ELSE d

processPayload(event, encryptionEnabled, kmsOkAt) ==
  IF ~encryptionEnabled
  THEN [threw |-> FALSE, err |-> NoError, payload |-> [kind |-> "wrapper", data |-> event.data],
        decryptCalls |-> <<>>, kmsCalls |-> 0]
  ELSE decryptAndParsePayload(event, kmsOkAt)

(***************************************************************************)
(* processNotification and the two routed actions.  sinkOk is the outcome  *)
(* of SalesforceEventService.sendNotificationEvent; payload is the value   *)
(* processPayload returned.                                                *)
(***************************************************************************)
\* variant: only the payload data is forwarded
SinkCallPayloadOnly(event) == [type |-> event.event_name, data |-> JSONstringify(event.data)]

SinkCall(event) == [type |-> event.event_name, data |-> JSONstringify(event)]

\* variant: a failed sink call is tried once more before giving up
processSalesforceCaseCreateRetrying(event, payload, sinkOk) ==
  IF sinkOk
  THEN [threw |-> FALSE, err |-> NoError, sinkCalls |-> <<SinkCall(event)>>]
  ELSE [threw |-> TRUE, err |-> PlainError("processSalesforceCaseCreate"),
        sinkCalls |-> <<SinkCall(event), SinkCall(event)>>]

processSalesforceCaseCreate(event, payload, sinkOk) ==
  IF sinkOk
  THEN [threw |-> FALSE, err |-> NoError, sinkCalls |-> <<SinkCall(event)>>]
  ELSE [threw |-> TRUE, err |-> PlainError("processSalesforceCaseCreate"),
        sinkCalls |-> <<SinkCall(event)>>]

\* after the sink call has returned, payload.applicationId is read for the
\* log entry inside the same try block: on a null payload the read raises a
\* TypeError, which the catch block wraps like a failure of the sink call
processApplicationUpdate(event, payload, sinkOk) ==
  IF ~sinkOk
  THEN [threw |-> TRUE, err |-> sendFailed(PlainError("sendNotificationEvent")),
        sinkCalls |-> <<SinkCall(event)>>]
  ELSE IF payload = Null
  THEN [threw |-> TRUE, err |-> sendFailed(TypeErrorAt("payload.applicationId")),
        sinkCalls |-> <<SinkCall(event)>>]
  ELSE [threw |-> FALSE, err |-> NoError, sinkCalls |-> <<SinkCall(event)>>]

\* variant: an unknown event name is an error
processNotificationStrict(event, payload, sinkOk) ==
  CASE event.event_name = APPLICATION_CREATE ->
         processSalesforceCaseCreate(event, payload, sinkOk)
    [] event.event_name = APPLICATION_UPDATE ->
         processApplicationUpdate(event, payload, sinkOk)
    [] OTHER -> [threw |-> TRUE, err |-> invalidEvent("unsupported event type"),
                 sinkCalls |-> <<>>]

processNotification(event, payload, sinkOk) ==
  CASE event.event_name = APPLICATION_CREATE ->
         processSalesforceCaseCreate(event, payload, sinkOk)
    [] event.event_name = APPLICATION_UPDATE ->
         processApplicationUpdate(event, payload, sinkOk)
    [] OTHER -> [threw |-> FALSE, err |-> NoError, sinkCalls |-> <<>>]

(***************************************************************************)
(* processRecord: parse, unwrap, validate, decrypt, route.  The result     *)
(* records what was called on the way: steps is the order of the pipeline  *)
(* steps entered for the record.                                           *)
(***************************************************************************)
Outcome(threw, err, event, steps, decryptCalls, kmsCalls, sinkCalls, payload) ==
  [threw |-> threw, err |-> err, event |-> event, steps |-> steps,
   decryptCalls |-> decryptCalls, kmsCalls |-> kmsCalls, sinkCalls |-> sinkCalls,
   payload |-> payload]

processRecord(body, encryptionEnabled, kmsOkAt, sinkOk) ==
  LET sns == parseSnsMessage(body)
      ev == parseNotificationEvent(sns.val)
      va == validateNotificationEvent(ev.val)
      pp == processPayload(ev.val, encryptionEnabled, kmsOkAt)
      pn == processNotification(ev.val, pp.payload, sinkOk)
      dsteps == IF Len(pp.decryptCalls) > 0 THEN <<"decrypt">> ELSE <<>>
      ssteps == IF Len(pn.sinkCalls) > 0 THEN <<"sink">> ELSE <<>>
  IN  IF sns.threw
      THEN Outcome(TRUE, sns.err, Null, <<"parse">>, <<>>, 0, <<>>, Null)
      ELSE IF ev.threw
      THEN Outcome(TRUE, ev.err, Null, <<"parse", "unwrap">>, <<>>, 0, <<>>, Null)
      ELSE IF va.threw
      THEN Outcome(TRUE, va.err, ev.val, <<"parse", "unwrap", "validate">>, <<>>, 0, <<>>, Null)
      ELSE IF pp.threw
      THEN Outcome(TRUE, pp.err, ev.val, <<"parse", "unwrap", "validate">> \o dsteps,
                   pp.decryptCalls, pp.kmsCalls, <<>>, Null)
      ELSE Outcome(pn.threw, pn.err, ev.val,
                   <<"parse", "unwrap", "validate">> \o dsteps \o <<"route">> \o ssteps,
                   pp.decryptCalls, pp.kmsCalls, pn.sinkCalls, pp.payload)

\* processSqsEvent on an event with several records, as the Lambda entry
\* point invokes it: for (const record of event.Records) await
\* processRecord(record).  outs holds the outcome of every record for which
\* processRecord was called.
RECURSIVE processSqsEventFrom(_, _, _, _, _)
processSqsEventFrom(Records, i, encryptionEnabled, kmsOkAt, outs) ==
  IF i > Len(Records)
  THEN [threw |-> FALSE, err |-> NoError, outs |-> outs]
  ELSE LET out == processRecord(Records[i].body, encryptionEnabled, kmsOkAt,
                                Records[i].sinkOk)
       IN  IF out.threw
           THEN [threw |-> TRUE, err |-> out.err, outs |-> Append(outs, out)]
           ELSE processSqsEventFrom(Records, i + 1, encryptionEnabled, kmsOkAt,
                                    Append(outs, out))

processSqsEventRecords(Records, encryptionEnabled, kmsOkAt) ==
  processSqsEventFrom(Records, 1, encryptionEnabled, kmsOkAt, <<>>)

\* processSqsEvent is invoked by the queue consumer with exactly one record
processSqsEvent(body, encryptionEnabled, kmsOkAt, sinkOk) ==
  processRecord(body, encryptionEnabled, kmsOkAt, sinkOk)

(***************************************************************************)
(* State.                                                                  *)
(*   Queue consumer (SqsSubscriberService):                                *)
(*     encryptionEnabled  SAMPLE_TENANT_CONFIG.features.encryption.enabled, *)
(*               the literal false in the handler's source                 *)
(*     isDev, isProcessing, queueUrls   fields of the service              *)
(*     queue     the messages held by each SQS queue                       *)
(*     loop      for each while loop entered by a startProcessing call,    *)
(*               its position                                              *)
(*     qpc, batch, idx   per loop and queue, the position of the pollQueue *)
(*               call of the loop's current cycle: the await it is         *)
(*               suspended in ("receive" ReceiveMessage, "handle"          *)
(*               processSqsEvent for message idx of the batch, "delete"    *)
(*               DeleteMessage for that message) or "done"                 *)
(*     trace     per loop and queue, the handler invocations and           *)
(*               DeleteMessage requests of that pollQueue call, in order   *)
(*     last      per loop and queue, the record that pollQueue call last   *)
(*               handed to the handler, whether the sink call made for it  *)
(*               failed, and the handler's outcome                         *)
(*     prior     per queue, the record, the sink calls and whether the     *)
(*               handler threw, for the most recent handler invocation of  *)
(*               any poll cycle of any loop                                *)
(*     cycles    number of poll cycles started, over all loops             *)
(*   Pure-function harnesses: retryIn/retryOut, handlerIn/handlerOut,      *)
(*   sendIn/sendOut hold the inputs and the results of one application.    *)
(*   NotificationProviderFactory:                                          *)
(*     providers  the instance cache, a set of <<type, instance>> entries  *)
(*     gp         position, arguments and result of each getProvider call  *)
(*     initRuns   the calls that ran the provider's initialize, in order   *)
(*   ValidationService: validateIn/validateOut, a candidate event and the  *)
(*   errors validateEvent returned for it.                                 *)
(*   KmsEncryptionService: kmsIn/kmsOut, the arguments and the results of  *)
(*   encrypt, decrypt and generateDataKey calls.                           *)
(*   NotificationsService: apiIn/apiOut, an event with the topic           *)
(*   configuration of the process and the outcome of processEvent.         *)
(*   SqsSubscriberService under repeated lifecycle calls: service, the     *)
(*   fields isDev and isProcessing of one instance and, for each           *)
(*   onModuleInit call made on it, the position of its startProcessing.    *)
(***************************************************************************)
VARIABLES encryptionEnabled, isDev, isProcessing, queueUrls, queue, loop,
          qpc, batch, idx, trace, last, prior, cycles,
          retryIn, retryOut, handlerIn, handlerOut, sendIn, sendOut,
          providers, gp, initRuns,
          validateIn, validateOut,
          kmsIn, kmsOut,
          apiIn, apiOut,
          service

consumerVars == <<encryptionEnabled, isDev, isProcessing, queueUrls, queue, loop,
                  qpc, batch, idx, trace, last, prior, cycles>>

retryVars == <<retryIn, retryOut>>

handlerVars == <<handlerIn, handlerOut>>

sendVars == <<sendIn, sendOut>>

factoryVars == <<providers, gp, initRuns>>

validatorVars == <<validateIn, validateOut>>

kmsVars == <<kmsIn, kmsOut>>

apiVars == <<apiIn, apiOut>>

lifecycleVars == <<service>>

extVars == <<factoryVars, validatorVars, kmsVars, apiVars, lifecycleVars>>

pureVars == <<retryVars, handlerVars, sendVars, extVars>>

vars == <<consumerVars, pureVars>>

(***************************************************************************)
(* NotificationProviderFactory.  getProvider is an async function: it runs *)
(* up to `await provider.initialize(config)` when it is called and resumes *)
(* later, so calls may overlap at that point.  The calls are numbered in   *)
(* the order they are made.                                                *)
(***************************************************************************)
MaxCalls == 3

CallIds == 1..MaxCalls

AWS_SNS == "AWS_SNS"

\* the values getProvider may be called with; only AWS_SNS is in the switch
ProviderTypes == {AWS_SNS, "OTHER"}

\* the AwsSnsProvider instance injected into the factory
awsSnsProvider == "awsSnsProvider"

NoProvider == "undefined"

\* Map.get / Map.set on a set of <<key, value>> entries
MapGet(m, k) ==
  IF \E e \in m : e[1] = k THEN (CHOOSE e \in m : e[1] = k)[2] ELSE NoProvider

MapSet(m, k, v) == {e \in m : e[1] # k} \cup {<<k, v>>}

Call(pc, type, initOk, ret) == [pc |-> pc, type |-> type, initOk |-> initOk, ret |-> ret]

FactoryIdle ==
  /\ providers = {}
  /\ gp = [c \in CallIds |-> Call("idle", "", FALSE, NoProvider)]
  /\ initRuns = <<>>

ValidatorIdle == validateIn = <<>> /\ validateOut = <<>>

KmsIdle == kmsIn = <<>> /\ kmsOut = <<>>

ApiIdle == apiIn = <<>> /\ apiOut = <<>>

\* the onModuleInit calls made on one service instance, in call order
MaxStarts == 3

StartIds == 1..MaxStarts

LifecycleIdle ==
  service = [isDev |-> FALSE, isProcessing |-> FALSE, loops |-> [c \in StartIds |-> "idle"]]

\* every component other than g is at rest and stays so
ExtIdleExcept(g) ==
  /\ g = "factory" \/ FactoryIdle
  /\ g = "validator" \/ ValidatorIdle
  /\ g = "kms" \/ KmsIdle
  /\ g = "api" \/ ApiIdle
  /\ g = "lifecycle" \/ LifecycleIdle

ExtIdle == ExtIdleExcept("none")

PureIdle ==
  /\ retryIn = <<>> /\ retryOut = <<>>
  /\ handlerIn = <<>> /\ handlerOut = <<>>
  /\ sendIn = <<>> /\ sendOut = <<>>

OthersUnchanged(g) ==
  /\ UNCHANGED <<consumerVars, retryVars, handlerVars, sendVars>>
  /\ g = "factory" \/ UNCHANGED factoryVars
  /\ g = "validator" \/ UNCHANGED validatorVars
  /\ g = "kms" \/ UNCHANGED kmsVars
  /\ g = "api" \/ UNCHANGED apiVars
  /\ g = "lifecycle" \/ UNCHANGED lifecycleVars

(***************************************************************************)
(* Input domains.                                                          *)
(***************************************************************************)
TenantA == [financialInstitutionId |-> "fi1", appId |-> "app1", environment |-> "prod"]

TenantB == [financialInstitutionId |-> "fi1", appId |-> "app2", environment |-> "prod"]

NoTenant == [financialInstitutionId |-> "", appId |-> "", environment |-> ""]

\* the structured value a decrypted payload parses to
PlainObject == [kind |-> "data"]

Obj(type, message, falsy, name, tenant, data) ==
  [kind |-> "object", Type |-> type, Message |-> message, falsy |-> falsy,
   event_name |-> name, tenant |-> tenant, data |-> data]

\* a fully populated event
Event(name, data) == Obj("absent", Absent, {}, name, TenantA, data)

\* an SNS notification envelope around a message text
Envelope(text) ==
  Obj("Notification", StrField(text), {"id", "header", "payload"}, "", NoTenant, DataObject)

GoodCipher == DataCipher(Utf8Encode(JSONstringify(PlainObject)), TenantA)

OtherContextCipher == DataCipher(Utf8Encode(JSONstringify(PlainObject)), TenantB)

NotJsonCipher == DataCipher(Utf8Encode(GarbageText), TenantA)

\* a ciphertext of the JSON text null
NullCipher == DataCipher(Utf8Encode(JSONstringify(Null)), TenantA)

EventNames == {APPLICATION_CREATE, APPLICATION_UPDATE, USER_UPDATE, "com.tyfone.nao.other"}

RoutedNames == {APPLICATION_CREATE, APPLICATION_UPDATE}

\* the bytes of GoodCipher as an array and as the JSON form of a Buffer
CipherArray == ByteArray(Ciphertext(Utf8Encode(JSONstringify(PlainObject)), TenantA))

CipherBufferJson == BufferJson(Ciphertext(Utf8Encode(JSONstringify(PlainObject)), TenantA))

Datas ==
  {DataObject, DataArray, DataArrayLike, DataOversized, DataBadValueOf, DataString,
   GoodCipher, OtherContextCipher, NotJsonCipher, NullCipher, CipherArray, CipherBufferJson}

FullEvents == {Event(n, d) : n \in EventNames, d \in Datas}

\* a fully populated event without one (or two) of its required properties
BrokenEvents ==
  {Obj("absent", Absent, {p}, APPLICATION_CREATE, TenantA, GoodCipher) : p \in PathSet}
  \cup {Obj("absent", Absent, {"payload.data", "header.tenant"}, APPLICATION_UPDATE,
            TenantA, DataObject)}

\* events that carry Type and Message properties of their own
TypedEvents ==
  {Obj(t, m, f, APPLICATION_CREATE, TenantA, d) :
     t \in {"Notification", "Other"},
     m \in {Absent, StrField(EmptyText), StrField(GarbageText),
            StrField(JSONstringify(Event(APPLICATION_UPDATE, DataObject)))},
     f \in {{}, {"id", "header", "payload"}},
     d \in {DataObject, GoodCipher}}

Scalars == {Null, Num(0), Num(5)}

\* event bodies before any wrapping
EventValues == FullEvents \cup BrokenEvents \cup TypedEvents \cup Scalars

(***************************************************************************)
(* SqsSubscriberService                                                    *)
(***************************************************************************)
AllQueues == {"main", "extra"}

MaxNumberOfMessages == 10

Message(id, body) == [id |-> id, body |-> body]

convertToSQSRecord(message, queueUrl) ==
  [messageId |-> message.id, receiptHandle |-> message.id, body |-> message.body,
   ApproximateReceiveCount |-> 1, eventSourceARN |-> queueUrl]

\* the bodies placed on the queues of the consumer specification: a routed
\* event in an SNS envelope, an event that is not routed, an event that
\* fails validation and a routed event sent directly
QueueBodies ==
  << JSONstringify(Envelope(JSONstringify(Event(APPLICATION_UPDATE, OtherContextCipher)))),
     JSONstringify(Event(USER_UPDATE, GoodCipher)),
     JSONstringify(Obj("absent", Absent, {"header.tenant"}, APPLICATION_CREATE, TenantA,
                       GoodCipher)),
     JSONstringify(Event(APPLICATION_CREATE, DataObject)) >>

\* the body of the i-th message of a queue whose first message has the k-th
\* body, the bodies following each other with the given stride
BodyAt(k, stride, i) == QueueBodies[((k - 1 + stride * (i - 1)) % Len(QueueBodies)) + 1]

MsgIds == 1..MaxMsgs

\* the subsequence of s made of the messages whose id is in ids
RECURSIVE SelectIds(_, _)
SelectIds(s, ids) ==
  IF s = <<>> THEN <<>>
  ELSE IF Head(s).id \in ids THEN <<Head(s)>> \o SelectIds(Tail(s), ids)
  ELSE SelectIds(Tail(s), ids)

IdsOf(s) == {s[i].id : i \in 1..Len(s)}

\* the while loops of the service, in the order they are entered; a loop is
\* entered by a startProcessing call in development mode, and each entry
\* starts a poll cycle
LoopIds == 1..MaxLoops

\* no loop has been entered and no pollQueue call has been made
NoLoops ==
  /\ loop = [l \in LoopIds |-> "unstarted"]
  /\ qpc = [l \in LoopIds |-> [q \in AllQueues |-> "idle"]]
  /\ batch = [l \in LoopIds |-> [q \in AllQueues |-> <<>>]]
  /\ idx = [l \in LoopIds |-> [q \in AllQueues |-> 0]]
  /\ trace = [l \in LoopIds |-> [q \in AllQueues |-> <<>>]]
  /\ last = [l \in LoopIds |-> [q \in AllQueues |-> <<>>]]
  /\ prior = [q \in AllQueues |-> <<>>]
  /\ cycles = 0

\* the strides of the initial queues: one body repeated, or the bodies in turn
Strides == {0, 1}

\* the service after construction, with 1..MaxMsgs messages on its queue
Init ==
  /\ ExtIdle
  /\ retryIn = <<>> /\ retryOut = <<>>
  /\ handlerIn = <<>> /\ handlerOut = <<>>
  /\ sendIn = <<>> /\ sendOut = <<>>
  /\ encryptionEnabled = FALSE
  /\ isDev \in BOOLEAN
  /\ isProcessing = FALSE
  /\ queueUrls = {"main"}
  /\ \E n \in 1..MaxMsgs : \E k \in 1..Len(QueueBodies), stride \in Strides :
        queue = [q \in AllQueues |->
                   IF q = "main" THEN [i \in 1..n |-> Message(i, BodyAt(k, stride, i))]
                   ELSE <<>>]
  /\ NoLoops

\* while (this.isProcessing) found the flag set: pollQueues() issues the
\* ReceiveMessage call of every configured queue
StartCycle(l) ==
  /\ cycles < MaxCycles
  /\ loop' = [loop EXCEPT ![l] = "polling"]
  /\ cycles' = cycles + 1
  /\ qpc' = [qpc EXCEPT ![l] = [q \in AllQueues |-> IF q \in queueUrls THEN "receive" ELSE "idle"]]
  /\ UNCHANGED <<batch, idx, trace, last>>

\* the next loop to be entered
NewLoop(l) == loop[l] = "unstarted" /\ \A k \in LoopIds : k < l => loop[k] # "unstarted"

\* onModuleInit -> startProcessing, up to its first await.  While the flag
\* is set the call returns at once.  Otherwise it sets the flag and, in
\* development mode, enters a while loop of its own: the first loop test
\* passes and pollQueues() has issued the ReceiveMessage calls of the first
\* cycle, all synchronously.  The flag is the only guard, so a call made
\* after stopProcessing enters a new loop whether or not an earlier loop is
\* still suspended in an await.
StartProcessing ==
  IF isProcessing
  THEN UNCHANGED vars
  ELSE /\ isProcessing' = TRUE
       /\ IF isDev
          THEN \E l \in LoopIds : NewLoop(l) /\ StartCycle(l)
          ELSE UNCHANGED <<loop, cycles, qpc, batch, idx, trace, last>>
       /\ UNCHANGED <<pureVars, encryptionEnabled, isDev, queueUrls, queue, prior>>

\* the condition of the while loop
LoopContinues == isProcessing

\* while (this.isProcessing) { await this.pollQueues(); await delay }: the
\* loop test of loop l, which runs when the 100 ms delay has elapsed
LoopHead(l) ==
  /\ loop[l] = "delay"
  /\ IF LoopContinues
     THEN StartCycle(l)
     ELSE /\ loop' = [loop EXCEPT ![l] = "exited"]
          /\ UNCHANGED <<cycles, qpc, batch, idx, trace, last>>
  /\ UNCHANGED <<pureVars, encryptionEnabled, isDev, isProcessing, queueUrls, queue, prior>>

\* the number of messages the pollQueue calls in progress have received; the
\* transport hands out messages while the loops hold at most MaxHeld
RECURSIVE HeldBy(_, _)
HeldBy(ls, qs) ==
  IF ls = {} THEN 0
  ELSE IF qs = {} THEN HeldBy(ls \ {CHOOSE l \in ls : TRUE}, AllQueues)
  ELSE LET l == CHOOSE k \in ls : TRUE
           q == CHOOSE r \in qs : TRUE
       IN  Len(batch[l][q]) + HeldBy(ls, qs \ {q})

Held == HeldBy(LoopIds, AllQueues)

\* pollQueue: the ReceiveMessage call settles; the transport returns any of
\* the queue's messages and the handler is invoked for the first of them, or
\* the call fails and the outer catch ends the poll
Receive(l, q) ==
  /\ qpc[l][q] = "receive"
  /\ \/ /\ qpc' = [qpc EXCEPT ![l][q] = "done"]
        /\ UNCHANGED <<batch, idx>>
     \/ \E ids \in SUBSET IdsOf(queue[q]) :
          /\ Cardinality(ids) <= MaxNumberOfMessages
          /\ Held + Cardinality(ids) <= MaxHeld
          /\ batch' = [batch EXCEPT ![l][q] = SelectIds(queue[q], ids)]
          /\ idx' = [idx EXCEPT ![l][q] = 1]
          /\ qpc' = [qpc EXCEPT ![l][q] = IF ids = {} THEN "done" ELSE "handle"]
  /\ UNCHANGED <<pureVars, encryptionEnabled, isDev, isProcessing, queueUrls, queue, loop, trace,
                 last, prior, cycles>>

\* the for loop moves on to the next message of the batch, if any
Advance(l, q) == IF idx[l][q] < Len(batch[l][q]) THEN "handle" ELSE "done"

\* try { processSqsEvent; DeleteMessage } catch { log }: where the iteration
\* continues once the handler has returned or thrown
AfterHandleAlwaysDelete(threw, l, q) == "delete"

AfterHandleAbortBatch(threw, l, q) == IF threw THEN "done" ELSE "delete"

AfterHandle(threw, l, q) == IF threw THEN Advance(l, q) ELSE "delete"

\* for (const message of response.Messages): the position of the next message
NextIdxSkipping(l, q) == IF idx[l][q] + 1 < Len(batch[l][q]) THEN idx[l][q] + 2 ELSE idx[l][q]

NextIdx(l, q) == IF idx[l][q] < Len(batch[l][q]) THEN idx[l][q] + 1 ELSE idx[l][q]

\* the handler invocation for the current message settles: DeleteMessage is
\* requested when it returned, the for loop goes on when it threw
Handle(l, q) ==
  /\ qpc[l][q] = "handle"
  /\ \E kmsOkAt \in 0..RequestRetries, sinkOk \in BOOLEAN :
       LET message == batch[l][q][idx[l][q]]
           sqsRecord == convertToSQSRecord(message, q)
           out == processSqsEvent(sqsRecord.body, encryptionEnabled, kmsOkAt, sinkOk)
       IN  /\ last' = [last EXCEPT ![l][q] =
                         <<[record |-> sqsRecord, out |-> out,
                            sinkFailed |-> out.sinkCalls # <<>> /\ ~sinkOk]>>]
           /\ prior' = [prior EXCEPT ![q] =
                          <<[record |-> sqsRecord, threw |-> out.threw,
                             sinkCalls |-> out.sinkCalls]>>]
           /\ trace' = [trace EXCEPT ![l][q] =
                          Append(@, [op |-> "handle", id |-> message.id, ok |-> ~out.threw])]
           /\ qpc' = [qpc EXCEPT ![l][q] = AfterHandle(out.threw, l, q)]
           /\ idx' = [idx EXCEPT ![l][q] =
                        IF AfterHandle(out.threw, l, q) = "delete" THEN @ ELSE NextIdx(l, q)]
  /\ UNCHANGED <<pureVars, encryptionEnabled, isDev, isProcessing, queueUrls, queue, loop, batch, cycles>>

\* the DeleteMessage request is awaited inside the try block of the
\* iteration: where the iteration continues once the request has settled
AfterDeleteAbortBatch(deleteOk, l, q) == IF deleteOk THEN Advance(l, q) ELSE "done"

AfterDelete(deleteOk, l, q) == Advance(l, q)

\* the DeleteMessage request made after successful processing settles; the
\* request may fail
Delete(l, q) ==
  /\ qpc[l][q] = "delete"
  /\ \E deleteOk \in BOOLEAN :
       LET message == batch[l][q][idx[l][q]]
       IN  /\ trace' = [trace EXCEPT ![l][q] =
                          Append(@, [op |-> "delete", id |-> message.id, ok |-> deleteOk])]
           /\ queue' = [queue EXCEPT ![q] =
                          IF deleteOk THEN SelectIds(@, IdsOf(@) \ {message.id}) ELSE @]
           /\ qpc' = [qpc EXCEPT ![l][q] = AfterDelete(deleteOk, l, q)]
  /\ idx' = [idx EXCEPT ![l][q] = NextIdx(l, q)]
  /\ UNCHANGED <<pureVars, encryptionEnabled, isDev, isProcessing, queueUrls, loop, batch, last, prior, cycles>>

\* Promise.all over the pollQueue calls of loop l has settled: the calls
\* have returned, their batches are gone, and the 100 ms delay is awaited
CycleEnd(l) ==
  /\ loop[l] = "polling"
  /\ \A q \in queueUrls : qpc[l][q] = "done"
  /\ loop' = [loop EXCEPT ![l] = "delay"]
  /\ qpc' = [qpc EXCEPT ![l] = [q \in AllQueues |-> "idle"]]
  /\ batch' = [batch EXCEPT ![l] = [q \in AllQueues |-> <<>>]]
  /\ idx' = [idx EXCEPT ![l] = [q \in AllQueues |-> 0]]
  /\ trace' = [trace EXCEPT ![l] = [q \in AllQueues |-> <<>>]]
  /\ last' = [last EXCEPT ![l] = [q \in AllQueues |-> <<>>]]
  /\ UNCHANGED <<pureVars, encryptionEnabled, isDev, isProcessing, queueUrls, queue, prior, cycles>>

\* stopProcessing clears the flag and waits for nothing
StopProcessing ==
  /\ isProcessing' = FALSE
  /\ UNCHANGED <<pureVars, encryptionEnabled, isDev, queueUrls, queue, loop, qpc, batch, idx, trace,
                 last, prior, cycles>>

Next ==
  \/ StartProcessing
  \/ \E l \in LoopIds : LoopHead(l)
  \/ \E l \in LoopIds, q \in AllQueues : Receive(l, q)
  \/ \E l \in LoopIds, q \in AllQueues : Handle(l, q)
  \/ \E l \in LoopIds, q \in AllQueues : Delete(l, q)
  \/ \E l \in LoopIds : CycleEnd(l)
  \/ StopProcessing

Spec == Init /\ [][Next]_vars

\* a service configured with SQS_QUEUE_URL and one queue in
\* ADDITIONAL_SQS_QUEUES, each queue holding at most one message
InitMulti ==
  /\ ExtIdle
  /\ PureIdle
  /\ encryptionEnabled = FALSE
  /\ isDev \in BOOLEAN
  /\ isProcessing = FALSE
  /\ queueUrls = AllQueues
  /\ \E n \in [AllQueues -> 0..1] :
        queue = [q \in AllQueues |->
                   IF n[q] = 0 THEN <<>>
                   ELSE IF q = "main"
                   THEN <<Message(1, JSONstringify(Event(USER_UPDATE, GoodCipher)))>>
                   ELSE <<Message(2, JSONstringify(Event(APPLICATION_UPDATE, DataObject)))>>]
  /\ NoLoops

SpecMulti == InitMulti /\ [][Next]_vars

\* a development-mode service whose queue holds an encrypted
\* application.create event and an application.update event whose
\* payload.data is a ciphertext of the text null
InitRedelivery ==
  /\ ExtIdle
  /\ PureIdle
  /\ encryptionEnabled = FALSE
  /\ isDev = TRUE
  /\ isProcessing = FALSE
  /\ queueUrls = {"main"}
  /\ queue = [q \in AllQueues |->
                IF q = "main"
                THEN << Message(1, JSONstringify(Event(APPLICATION_CREATE, GoodCipher))),
                        Message(2, JSONstringify(Event(APPLICATION_UPDATE, NullCipher))) >>
                ELSE <<>>]
  /\ NoLoops

SpecRedelivery == InitRedelivery /\ [][Next]_vars

(***************************************************************************)
(* Consumer variables at rest, for the specifications of the pure          *)
(* functions.                                                              *)
(***************************************************************************)
ConsumerIdle ==
  /\ encryptionEnabled = FALSE
  /\ isDev = FALSE
  /\ isProcessing = FALSE
  /\ queueUrls = {}
  /\ queue = [q \in AllQueues |-> <<>>]
  /\ NoLoops

(***************************************************************************)
(* SpecLifecycle: onModuleInit and stopProcessing called on one service    *)
(* instance in any order.  Each call of startProcessing that enters the    *)
(* while loop is suspended either in `await this.pollQueues()` or in the   *)
(* awaited 100 ms delay; the loop test runs when the delay has elapsed.    *)
(***************************************************************************)
InitLifecycle ==
  /\ ConsumerIdle
  /\ PureIdle
  /\ ExtIdleExcept("lifecycle")
  /\ service \in [isDev : BOOLEAN, isProcessing : {FALSE},
                   loops : {[c \in StartIds |-> "idle"]}]

\* onModuleInit -> startProcessing, up to its first await
OnModuleInit(c) ==
  /\ service.loops[c] = "idle"
  /\ \A b \in StartIds : b < c => service.loops[b] # "idle"
  /\ service' =
       IF service.isProcessing
       THEN [service EXCEPT !.loops[c] = "returned"]
       ELSE [service EXCEPT !.isProcessing = TRUE,
                            !.loops[c] = IF service.isDev THEN "polling" ELSE "returned"]
  /\ OthersUnchanged("lifecycle")

\* await this.pollQueues() has settled; the delay is awaited
PollQueuesSettled(c) ==
  /\ service.loops[c] = "polling"
  /\ service' = [service EXCEPT !.loops[c] = "delay"]
  /\ OthersUnchanged("lifecycle")

\* the delay has elapsed: while (this.isProcessing)
LoopTest(c) ==
  /\ service.loops[c] = "delay"
  /\ service' = [service EXCEPT !.loops[c] =
                   IF service.isProcessing THEN "polling" ELSE "exited"]
  /\ OthersUnchanged("lifecycle")

ServiceStopProcessing ==
  /\ service.isProcessing
  /\ service' = [service EXCEPT !.isProcessing = FALSE]
  /\ OthersUnchanged("lifecycle")

NextLifecycle ==
  \/ \E c \in StartIds : OnModuleInit(c)
  \/ \E c \in StartIds : PollQueuesSettled(c)
  \/ \E c \in StartIds : LoopTest(c)
  \/ ServiceStopProcessing

SpecLifecycle == InitLifecycle /\ [][NextLifecycle]_vars

\* The steps of one loop.  A loop is driven by awaited promises: every
\* ReceiveMessage call (a long poll of 20 s), handler invocation and
\* DeleteMessage request settles, so pollQueues() settles, and the loop
\* test runs once the delay has elapsed.
LoopStep(c) == PollQueuesSettled(c) \/ LoopTest(c)

Fairness == \A c \in StartIds : WF_vars(LoopStep(c))

SpecLifecycleLive == SpecLifecycle /\ Fairness

(***************************************************************************)
(* SpecRetry: retryConnection applied to bounded options and operations.   *)
(***************************************************************************)
MaxDelayBound == 6

MaxFactor == 3

RetryInputs ==
  [okAt : 0..MaxOkAt, maxRetries : -1..MaxRetriesBound, initialDelay : 1..MaxDelayBound,
   maxDelay : 1..MaxDelayBound, backoffFactor : 1..MaxFactor]

InitRetry ==
  /\ ConsumerIdle
  /\ ExtIdle
  /\ handlerIn = <<>> /\ handlerOut = <<>>
  /\ sendIn = <<>> /\ sendOut = <<>>
  /\ retryIn \in RetryInputs
  /\ retryOut = <<>>

RunRetry ==
  /\ retryOut = <<>>
  /\ retryOut' = <<retryConnection(retryIn)>>
  /\ UNCHANGED <<consumerVars, handlerVars, sendVars, extVars, retryIn>>

NextRetry == RunRetry

SpecRetry == InitRetry /\ [][NextRetry]_vars

(***************************************************************************)
(* SpecHandler: processRecord applied to a record body, and to the same    *)
(* body wrapped in an SNS notification envelope, under the same tenant     *)
(* configuration and the same behaviour of the collaborators.              *)
(***************************************************************************)
HandlerBodies ==
  {JsonText(v, c) : v \in EventValues, c \in BOOLEAN}
  \cup {JSONstringify(Envelope(JSONstringify(v))) : v \in FullEvents \cup Scalars}
  \cup {JSONstringify(Envelope(GarbageText)), EmptyText, GarbageText}

\* the encryption flag is an argument here: off is the value the handler
\* has, on exercises decryptAndParsePayload
HandlerInputs ==
  [body : HandlerBodies, encryptionEnabled : BOOLEAN, kmsOkAt : 0..RequestRetries,
   sinkOk : BOOLEAN]

InitHandler ==
  /\ ConsumerIdle
  /\ ExtIdle
  /\ retryIn = <<>> /\ retryOut = <<>>
  /\ sendIn = <<>> /\ sendOut = <<>>
  /\ handlerIn \in HandlerInputs
  /\ handlerOut = [direct |-> <<>>, wrapped |-> <<>>]

ProcessDirect ==
  /\ handlerOut.direct = <<>>
  /\ handlerOut' = [handlerOut EXCEPT !.direct =
        <<processRecord(handlerIn.body, handlerIn.encryptionEnabled, handlerIn.kmsOkAt,
                        handlerIn.sinkOk)>>]
  /\ UNCHANGED <<consumerVars, retryVars, sendVars, extVars, handlerIn>>

ProcessWrapped ==
  /\ handlerOut.wrapped = <<>>
  /\ handlerOut' = [handlerOut EXCEPT !.wrapped =
        <<processRecord(JSONstringify(Envelope(handlerIn.body)), handlerIn.encryptionEnabled,
                        handlerIn.kmsOkAt, handlerIn.sinkOk)>>]
  /\ UNCHANGED <<consumerVars, retryVars, sendVars, extVars, handlerIn>>

NextHandler ==
  \/ ProcessDirect
  \/ ProcessWrapped

SpecHandler == InitHandler /\ [][NextHandler]_vars

(***************************************************************************)
(* SpecLambda: processSqsEvent applied to an event of one to MaxRecords    *)
(* records, the way the Lambda handler invokes it.                         *)
(***************************************************************************)
MaxRecords == 3

LambdaBodies == {QueueBodies[i] : i \in 1..Len(QueueBodies)} \cup {GarbageText}

LambdaRecords == [body : LambdaBodies, sinkOk : BOOLEAN]

LambdaInputs ==
  [Records : UNION {[1..n -> LambdaRecords] : n \in 1..MaxRecords},
   encryptionEnabled : BOOLEAN, kmsOkAt : {0, 1}]

InitLambda ==
  /\ ConsumerIdle
  /\ ExtIdle
  /\ retryIn = <<>> /\ retryOut = <<>>
  /\ sendIn = <<>> /\ sendOut = <<>>
  /\ handlerIn \in LambdaInputs
  /\ handlerOut = <<>>

RunLambda ==
  /\ handlerOut = <<>>
  /\ handlerOut' = <<processSqsEventRecords(handlerIn.Records, handlerIn.encryptionEnabled,
                                            handlerIn.kmsOkAt)>>
  /\ UNCHANGED <<consumerVars, retryVars, sendVars, extVars, handlerIn>>

NextLambda == RunLambda

SpecLambda == InitLambda /\ [][NextLambda]_vars

(***************************************************************************)
(* Transport providers.  An event handed to send() has either the nested   *)
(* shape (id, header, payload) or the flat shape (id, type, version,       *)
(* source, tenant); a target is "" when it is not configured.  okAt is the *)
(* first transport request that succeeds (0: none does).                   *)
(***************************************************************************)
SendEvent(shape) ==
  [shape |-> shape, id |-> "e1", name |-> APPLICATION_CREATE, version |-> "1.0",
   source |-> "web", tenant |-> TenantA]

\* the events handed to send(): two shapes, and for each shape two events
\* that differ in id, event type and tenant
SendEvents ==
  {SendEvent(shape) : shape \in {"nested", "flat"}}
    \cup {[SendEvent(shape) EXCEPT !.id = "e2", !.name = USER_UPDATE, !.tenant = TenantB] :
             shape \in {"nested", "flat"}}

\* a member an object literal inherits from Object.prototype: a function, or
\* the prototype object
InheritedMember == "inherited member"

Targets == {"", "arn:topic", "arn:topic.fifo"}

IsFifo(target) == target = "arn:topic.fifo"

SendOutcome(threw, err, success, error, messageId, calls, sleeps, command) ==
  [threw |-> threw, err |-> err,
   result |-> [success |-> success, error |-> error, messageId |-> messageId],
   calls |-> calls, sleeps |-> sleeps, command |-> command]

Attributes(event) ==
  [eventId |-> event.id, eventType |-> event.name, eventVersion |-> event.version,
   source |-> event.source, financialInstitutionId |-> event.tenant.financialInstitutionId,
   appId |-> event.tenant.appId, environment |-> event.tenant.environment]

\* variant: the provider-level default wins over config.config
ResolveTargetDefaultFirst(configTarget, envTarget) ==
  IF envTarget # "" THEN envTarget ELSE configTarget

\* configTopicArn || envTopicArn, configQueueUrl || envQueueUrl
ResolveTarget(configTarget, envTarget) ==
  IF configTarget # "" THEN configTarget ELSE envTarget

\* MessageGroupId without the event type
MessageGroupIdTenantOnly(event) ==
  event.tenant.financialInstitutionId \o "-" \o event.tenant.appId

\* MessageGroupId of a message published to a FIFO topic
MessageGroupId(event) ==
  event.tenant.financialInstitutionId \o "-" \o event.tenant.appId \o "-" \o event.name

\* MessageDeduplicationId of a message published to a FIFO topic
MessageDeduplicationId(event) == event.id

\* SnsProviderAdapter.send
SnsSend(event, configTopicArn, envTopicArn, okAt) ==
  LET topicArn == ResolveTarget(configTopicArn, envTopicArn)
      command == [target |-> topicArn, body |-> JSONstringify(event),
                  attributes |-> Attributes(event),
                  groupId |-> IF IsFifo(topicArn) THEN <<MessageGroupId(event)>> ELSE <<>>,
                  dedupId |-> IF IsFifo(topicArn)
                              THEN <<MessageDeduplicationId(event)>> ELSE <<>>]
      r == retryConnection(RequestOptions(okAt))
  IN  IF topicArn = ""
      THEN SendOutcome(FALSE, NoError, FALSE, "Missing topicArn", "", 0, <<>>, <<>>)
      ELSE IF topicArn = InheritedMember
      THEN \* topicArn.endsWith is not a function: TypeError inside the try block
           SendOutcome(FALSE, NoError, FALSE, "TypeError", "", 0, <<>>, <<>>)
      ELSE IF event.shape # "flat"
      THEN \* event.tenant is undefined: TypeError inside the try block
           SendOutcome(FALSE, NoError, FALSE, "TypeError", "", 0, <<>>, <<>>)
      ELSE IF r.threw
      THEN SendOutcome(FALSE, NoError, FALSE, r.err.origin, "", r.calls, r.sleeps, <<command>>)
      ELSE SendOutcome(FALSE, NoError, TRUE, "", "mid", r.calls, r.sleeps, <<command>>)

\* SqsProviderAdapter.send
SqsSend(event, configQueueUrl, envQueueUrl, okAt) ==
  LET queueUrl == ResolveTarget(configQueueUrl, envQueueUrl)
      command == [target |-> queueUrl, body |-> JSONstringify(event),
                  attributes |-> Attributes(event), groupId |-> <<>>, dedupId |-> <<>>]
      r == retryConnection(RequestOptions(okAt))
  IN  IF queueUrl = ""
      THEN SendOutcome(TRUE, operationFailed("publish"), FALSE, "", "", 0, <<>>, <<>>)
      ELSE IF event.shape # "nested"
      THEN \* event.header is undefined: TypeError inside the try block
           SendOutcome(TRUE, operationFailed("publish"), FALSE, "", "", 0, <<>>, <<>>)
      ELSE IF r.threw
      THEN SendOutcome(TRUE, operationFailed("publish"), FALSE, "", "", r.calls, r.sleeps,
                       <<command>>)
      ELSE SendOutcome(FALSE, NoError, TRUE, "", "mid", r.calls, r.sleeps, <<command>>)

ProviderSend(in) ==
  IF in.provider = "sns"
  THEN SnsSend(in.event, in.configTarget, in.envTarget, in.okAt)
  ELSE SqsSend(in.event, in.configTarget, in.envTarget, in.okAt)

SendInputs ==
  [provider : {"sns", "sqs"}, event : SendEvents,
   configTarget : Targets, envTarget : Targets, okAt : 0..RequestRetries]

InitSend ==
  /\ ConsumerIdle
  /\ ExtIdle
  /\ retryIn = <<>> /\ retryOut = <<>>
  /\ handlerIn = <<>> /\ handlerOut = <<>>
  /\ sendIn \in SendInputs
  /\ sendOut = <<>>

RunSend ==
  /\ sendOut = <<>>
  /\ sendOut' = <<ProviderSend(sendIn)>>
  /\ UNCHANGED <<consumerVars, retryVars, handlerVars, extVars, sendIn>>

NextSend == RunSend

SpecSend == InitSend /\ [][NextSend]_vars

(***************************************************************************)
(* NotificationsService (producer side).  The process configuration holds, *)
(* for each of the three topic keys, a topic ARN, the empty string, or no  *)
(* value at all.                                                           *)
(***************************************************************************)
Undefined == "undefined"

TOPIC_NOT_CONFIGURED == "NOTIFICATION_001"

topicNotConfigured(eventName) ==
  [name |-> "NotificationError", code |-> TOPIC_NOT_CONFIGURED, origin |-> eventName]

TopicKeys ==
  {"SNS_TOPIC_APPLICATION_UPDATE", "SNS_TOPIC_APPLICATION_CREATE", "SNS_TOPIC_USER_UPDATE"}

\* the names every object literal inherits from Object.prototype
ObjectPrototypeNames ==
  {"__proto__", "constructor", "hasOwnProperty", "isPrototypeOf", "propertyIsEnumerable",
   "toLocaleString", "toString", "valueOf", "__defineGetter__", "__defineSetter__",
   "__lookupGetter__", "__lookupSetter__"}

\* topicMap[eventName] as a lookup: the configuration key whose value the
\* map holds under an event name, InheritedMember for a name the map
\* inherits, Undefined for any other name
TopicKeyOf(eventName) ==
  CASE eventName = APPLICATION_UPDATE -> "SNS_TOPIC_APPLICATION_UPDATE"
    [] eventName = APPLICATION_CREATE -> "SNS_TOPIC_APPLICATION_CREATE"
    [] eventName = EventName_USER_UPDATE -> "SNS_TOPIC_USER_UPDATE"
    [] eventName \in ObjectPrototypeNames -> InheritedMember
    [] OTHER -> Undefined

ApiResult(threw, err, val) == [threw |-> threw, err |-> err, val |-> val]

\* NotificationsService.getTopicArnForEvent: the map is built from all three
\* keys with getOrThrow before the event name is looked up
getTopicArnForEvent(eventName, env) ==
  LET topicArn == IF TopicKeyOf(eventName) \in {Undefined, InheritedMember}
                  THEN TopicKeyOf(eventName)
                  ELSE env[TopicKeyOf(eventName)]
  IN  IF \E k \in TopicKeys : env[k] = Undefined
      THEN ApiResult(TRUE, TypeErrorAt("getOrThrow"), "")
      ELSE IF topicArn = Undefined \/ topicArn = ""
      THEN ApiResult(TRUE, topicNotConfigured(eventName), "")
      ELSE ApiResult(FALSE, NoError, topicArn)

NotificationResponse(result) ==
  [success |-> result.success, messageId |-> result.messageId, timestamp |-> "now"]

\* NotificationsService.processEvent
processEvent(event, env, envTopicArn, okAt) ==
  LET topic == getTopicArnForEvent(event.name, env)
      sent == SnsSend(event, topic.val, envTopicArn, okAt)
      NoResponse == [success |-> FALSE, messageId |-> "", timestamp |-> ""]
  IN  IF event.shape # "nested"
      THEN \* event.header is undefined, in the try block and again in the catch block
           [threw |-> TRUE, err |-> TypeErrorAt("event.header.event_name"),
            val |-> NoResponse, topic |-> <<>>, sent |-> <<>>]
      ELSE IF topic.threw
      THEN [threw |-> TRUE, err |-> sendFailed(topic.err), val |-> NoResponse,
            topic |-> <<>>, sent |-> <<>>]
      ELSE [threw |-> FALSE, err |-> NoError, val |-> NotificationResponse(sent.result),
            topic |-> <<topic.val>>, sent |-> <<sent>>]

(***************************************************************************)
(* SpecApi: one processEvent call.                                         *)
(***************************************************************************)
ApiEvents ==
  {[SendEvent(shape) EXCEPT !.name = n] :
     shape \in {"nested", "flat"},
     n \in EventNames \cup {EventName_USER_UPDATE, "toString", "__proto__"}}

ApiInputs ==
  [event : ApiEvents, env : [TopicKeys -> {Undefined, "", "arn:topic"}],
   envTopicArn : {"", "arn:topic"}, okAt : 0..RequestRetries]

InitApi ==
  /\ ConsumerIdle
  /\ PureIdle
  /\ ExtIdleExcept("api")
  /\ apiIn \in ApiInputs
  /\ apiOut = <<>>

RunProcessEvent ==
  /\ apiOut = <<>>
  /\ apiOut' = <<processEvent(apiIn.event, apiIn.env, apiIn.envTopicArn, apiIn.okAt)>>
  /\ UNCHANGED apiIn
  /\ OthersUnchanged("api")

NextApi == RunProcessEvent

SpecApi == InitApi /\ [][NextApi]_vars

(***************************************************************************)
(* SpecValidator: validateEvent applied to a candidate event.              *)
(***************************************************************************)
InitValidator ==
  /\ ConsumerIdle
  /\ PureIdle
  /\ ExtIdleExcept("validator")
  /\ validateIn \in EventValues
  /\ validateOut = <<>>

RunValidate ==
  /\ validateOut = <<>>
  /\ validateOut' = <<validateEvent(validateIn)>>
  /\ UNCHANGED validateIn
  /\ OthersUnchanged("validator")

NextValidator == RunValidate

SpecValidator == InitValidator /\ [][NextValidator]_vars

(***************************************************************************)
(* SpecValidation: one candidate event given to the validation step of the *)
(* handler and to ValidationService.validateEvent.                         *)
(***************************************************************************)
RunBothValidators ==
  /\ validateOut = <<>>
  /\ validateOut' = <<[handler |-> validateNotificationEvent(validateIn),
                       errors |-> validateEvent(validateIn)]>>
  /\ UNCHANGED validateIn
  /\ OthersUnchanged("validator")

NextValidation == RunBothValidators

SpecValidation == InitValidator /\ [][NextValidation]_vars

(***************************************************************************)
(* SpecKms: encrypt under a context, then decrypt of the result under the  *)
(* same and under another context, directly and through the handler's     *)
(* decryptAndParsePayload; generateDataKey.                                *)
(***************************************************************************)
KmsContexts ==
  [financialInstitutionId : {"fi1", "fi2"}, appId : {"app1", "app2"},
   environment : {"prod", "dev"}]

\* strings and buffers handed to encrypt
Plaintexts ==
  {JSONstringify(PlainObject), GarbageText, EmptyText, SurrogateText,
   Utf8Encode(GarbageText), BinaryBytes}

KmsInputs ==
  [data : Plaintexts, keyId : {"", "key-1"}, envKeyId : {"", "env-key"},
   context : {c \in KmsContexts : c.financialInstitutionId = "fi1" /\ c.appId = "app1"},
   other : KmsContexts, kmsOkAt : 0..RequestRetries, acceptsEmpty : BOOLEAN]

\* an event of the tenant of a context, whose tenant object holds one more
\* property
TenantEvent(context, data) ==
  Obj("absent", Absent, {}, APPLICATION_UPDATE, context @@ [region |-> "eu"], data)

InitKms ==
  /\ ConsumerIdle
  /\ PureIdle
  /\ ExtIdleExcept("kms")
  /\ kmsIn \in KmsInputs
  /\ kmsOut = [enc |-> <<>>, same |-> <<>>, other |-> <<>>, handler |-> <<>>, key |-> <<>>]

RunEncrypt ==
  /\ kmsOut.enc = <<>>
  /\ kmsOut' = [kmsOut EXCEPT !.enc =
        <<encrypt(kmsIn.data, kmsIn.keyId, kmsIn.envKeyId, kmsIn.context, kmsIn.kmsOkAt,
                  kmsIn.acceptsEmpty)>>]
  /\ UNCHANGED kmsIn
  /\ OthersUnchanged("kms")

Encrypted == kmsOut.enc # <<>> /\ ~kmsOut.enc[1].threw

RunDecrypt ==
  /\ Encrypted
  /\ kmsOut.same = <<>>
  /\ kmsOut' = [kmsOut EXCEPT !.same =
        <<decrypt(kmsOut.enc[1].val, kmsIn.context, kmsIn.kmsOkAt)>>]
  /\ UNCHANGED kmsIn
  /\ OthersUnchanged("kms")

RunDecryptOther ==
  /\ kmsOut.same # <<>>
  /\ kmsOut.other = <<>>
  /\ kmsOut' = [kmsOut EXCEPT !.other =
        <<decrypt(kmsOut.enc[1].val, kmsIn.other, kmsIn.kmsOkAt)>>]
  /\ UNCHANGED kmsIn
  /\ OthersUnchanged("kms")

RunHandlerDecrypt ==
  /\ kmsOut.other # <<>>
  /\ kmsOut.handler = <<>>
  /\ kmsOut' = [kmsOut EXCEPT !.handler =
        <<decryptAndParsePayload(TenantEvent(kmsIn.context, kmsOut.enc[1].val),
                                 kmsIn.kmsOkAt)>>]
  /\ UNCHANGED kmsIn
  /\ OthersUnchanged("kms")

RunGenerateDataKey ==
  /\ kmsOut.enc # <<>>
  /\ kmsOut.key = <<>>
  /\ kmsOut' = [kmsOut EXCEPT !.key =
        <<generateDataKey(kmsIn.keyId, kmsIn.envKeyId, kmsIn.context, kmsIn.kmsOkAt)>>]
  /\ UNCHANGED kmsIn
  /\ OthersUnchanged("kms")

NextKms ==
  \/ RunEncrypt
  \/ RunDecrypt
  \/ RunDecryptOther
  \/ RunHandlerDecrypt
  \/ RunGenerateDataKey

SpecKms == InitKms /\ [][NextKms]_vars

(***************************************************************************)
(* SpecConfig: one send() and, on a KmsEncryptionService, one encrypt and  *)
(* one generateDataKey, under every combination of configured and default  *)
(* target and of key id argument and default key id.                       *)
(***************************************************************************)
ConfigKmsInputs ==
  {in \in KmsInputs : /\ in.data = JSONstringify(PlainObject)
                      /\ in.context = TenantA /\ in.other = TenantA
                      /\ in.acceptsEmpty}

InitConfig ==
  /\ ConsumerIdle
  /\ ExtIdleExcept("kms")
  /\ retryIn = <<>> /\ retryOut = <<>>
  /\ handlerIn = <<>> /\ handlerOut = <<>>
  /\ sendIn \in SendInputs
  /\ sendOut = <<>>
  /\ kmsIn \in ConfigKmsInputs
  /\ kmsOut = [enc |-> <<>>, same |-> <<>>, other |-> <<>>, handler |-> <<>>, key |-> <<>>]

ConfigSend ==
  /\ sendOut = <<>>
  /\ sendOut' = <<ProviderSend(sendIn)>>
  /\ UNCHANGED sendIn
  /\ UNCHANGED <<consumerVars, retryVars, handlerVars, extVars>>

ConfigEncrypt ==
  /\ kmsOut.enc = <<>>
  /\ kmsOut' = [kmsOut EXCEPT !.enc =
        <<encrypt(kmsIn.data, kmsIn.keyId, kmsIn.envKeyId, kmsIn.context, kmsIn.kmsOkAt,
                  kmsIn.acceptsEmpty)>>]
  /\ UNCHANGED kmsIn
  /\ OthersUnchanged("kms")

ConfigGenerateDataKey ==
  /\ kmsOut.key = <<>>
  /\ kmsOut' = [kmsOut EXCEPT !.key =
        <<generateDataKey(kmsIn.keyId, kmsIn.envKeyId, kmsIn.context, kmsIn.kmsOkAt)>>]
  /\ UNCHANGED kmsIn
  /\ OthersUnchanged("kms")

NextConfig ==
  \/ ConfigSend
  \/ ConfigEncrypt
  \/ ConfigGenerateDataKey

SpecConfig == InitConfig /\ [][NextConfig]_vars

(***************************************************************************)
(* SpecFactory: getProvider calls on one NotificationProviderFactory.      *)
(***************************************************************************)
\* variant: the provider is cached before initialize is awaited
GetProviderCallCacheFirst(c, type) ==
  /\ gp[c].pc = "idle"
  /\ \A d \in CallIds : d < c => gp[d].pc # "idle"
  /\ LET existingProvider == MapGet(providers, type)
     IN  IF existingProvider # NoProvider
         THEN /\ gp' = [gp EXCEPT ![c] = Call("returned", type, FALSE, existingProvider)]
              /\ UNCHANGED <<initRuns, providers>>
         ELSE IF type # AWS_SNS
         THEN /\ gp' = [gp EXCEPT ![c] = Call("threw", type, FALSE, NoProvider)]
              /\ UNCHANGED <<initRuns, providers>>
         ELSE /\ \E initOk \in BOOLEAN :
                   gp' = [gp EXCEPT ![c] = Call("awaiting", type, initOk, NoProvider)]
              /\ initRuns' = Append(initRuns, c)
              /\ providers' = MapSet(providers, type, awsSnsProvider)
  /\ OthersUnchanged("factory")

\* getProvider from its call to the await of provider.initialize(config);
\* initialize runs here and may fail
GetProviderCall(c, type) ==
  /\ gp[c].pc = "idle"
  /\ \A d \in CallIds : d < c => gp[d].pc # "idle"
  /\ LET existingProvider == MapGet(providers, type)
     IN  IF existingProvider # NoProvider
         THEN /\ gp' = [gp EXCEPT ![c] = Call("returned", type, FALSE, existingProvider)]
              /\ UNCHANGED initRuns
         ELSE IF type # AWS_SNS
         THEN /\ gp' = [gp EXCEPT ![c] = Call("threw", type, FALSE, NoProvider)]
              /\ UNCHANGED initRuns
         ELSE /\ \E initOk \in BOOLEAN :
                   gp' = [gp EXCEPT ![c] = Call("awaiting", type, initOk, NoProvider)]
              /\ initRuns' = Append(initRuns, c)
  /\ UNCHANGED providers
  /\ OthersUnchanged("factory")

\* variant: every call constructs a provider of its own
GetProviderResumeFresh(c) ==
  /\ gp[c].pc = "awaiting"
  /\ IF gp[c].initOk
     THEN /\ providers' = MapSet(providers, gp[c].type, <<"provider", c>>)
          /\ gp' = [gp EXCEPT ![c] = Call("returned", @.type, TRUE, <<"provider", c>>)]
     ELSE /\ gp' = [gp EXCEPT ![c] = Call("threw", @.type, FALSE, NoProvider)]
          /\ UNCHANGED providers
  /\ UNCHANGED initRuns
  /\ OthersUnchanged("factory")

\* getProvider after the await: the rejection propagates, or the provider is
\* cached and returned
GetProviderResume(c) ==
  /\ gp[c].pc = "awaiting"
  /\ IF gp[c].initOk
     THEN /\ providers' = MapSet(providers, gp[c].type, awsSnsProvider)
          /\ gp' = [gp EXCEPT ![c] = Call("returned", @.type, TRUE, awsSnsProvider)]
     ELSE /\ gp' = [gp EXCEPT ![c] = Call("threw", @.type, FALSE, NoProvider)]
          /\ UNCHANGED providers
  /\ UNCHANGED initRuns
  /\ OthersUnchanged("factory")

InitFactory ==
  /\ ConsumerIdle
  /\ PureIdle
  /\ ExtIdleExcept("factory")
  /\ FactoryIdle

NextFactory ==
  \/ \E c \in CallIds, type \in ProviderTypes : GetProviderCall(c, type)
  \/ \E c \in CallIds : GetProviderResume(c)

SpecFactory == InitFactory /\ [][NextFactory]_vars

(***************************************************************************)
(* Properties of the queue consumer (specification Spec).                  *)
(***************************************************************************)
Handles(l, q) == {i \in 1..Len(trace[l][q]) : trace[l][q][i].op = "handle"}

Deletes(l, q) == {i \in 1..Len(trace[l][q]) : trace[l][q][i].op = "delete"}

\* C1: within a poll cycle a DeleteMessage request for a message directly
\* follows a handler invocation for that same message that returned without
\* throwing, and no message whose handler invocation threw has a
\* DeleteMessage request in that cycle.
C1_DeleteOnlyAfterSuccess ==
  \A l \in LoopIds, q \in AllQueues :
    /\ \A i \in Deletes(l, q) :
         /\ i > 1
         /\ trace[l][q][i - 1] = [op |-> "handle", id |-> trace[l][q][i].id, ok |-> TRUE]
    /\ \A i \in Handles(l, q) :
         ~trace[l][q][i].ok => \A j \in Deletes(l, q) : trace[l][q][j].id # trace[l][q][i].id

C1_Witness ==
  \E l \in LoopIds, q \in AllQueues : \E i \in Handles(l, q) : \E j \in Deletes(l, q) :
    ~trace[l][q][i].ok /\ i < j

HandleAt(l, q, id) == CHOOSE i \in Handles(l, q) : trace[l][q][i].id = id

\* the poll of queue q in loop l has finished: every message of the received
\* batch was handed to the handler once, in batch order; each message whose
\* handler invocation returned has a DeleteMessage request after it (and is
\* gone from the queue when that request succeeded), and each message whose
\* handler invocation threw has no DeleteMessage request; stillQueued tells
\* whether the latter is also required to be on the queue
BatchIsolated(l, q, stillQueued) ==
  /\ Cardinality(Handles(l, q)) = Len(batch[l][q])
  /\ \A k \in 1..Len(batch[l][q]) :
       LET id == batch[l][q][k].id
       IN  /\ \E i \in Handles(l, q) : trace[l][q][i].id = id
           /\ \A k2 \in 1..Len(batch[l][q]) :
                k < k2 => HandleAt(l, q, id) < HandleAt(l, q, batch[l][q][k2].id)
           /\ IF trace[l][q][HandleAt(l, q, id)].ok
              THEN \E j \in Deletes(l, q) :
                     /\ j = HandleAt(l, q, id) + 1
                     /\ trace[l][q][j].id = id
                     /\ trace[l][q][j].ok => id \notin IdsOf(queue[q])
              ELSE /\ \A j \in Deletes(l, q) : trace[l][q][j].id # id
                   /\ stillQueued => id \in IdsOf(queue[q])

RECURSIVE Sum(_)
Sum(s) == IF s = <<>> THEN 0 ELSE Head(s) + Sum(Tail(s))

RECURSIVE Pow(_, _)
Pow(b, e) == IF e = 0 THEN 1 ELSE b * Pow(b, e - 1)

\* the operation fails on every invocation retryConnection can make
AlwaysFails(in) == in.okAt = 0 \/ in.okAt > in.maxRetries

\* C3: with maxRetries >= 1, an operation that always fails is invoked
\* exactly maxRetries times with exactly maxRetries - 1 sleeps and the
\* terminal error is raised; an operation that succeeds on invocation
\* k <= maxRetries returns after exactly k invocations (and k - 1 sleeps).
C3_RetryAttempts ==
  retryOut # <<>> /\ retryIn.maxRetries >= 1 =>
    LET r == retryOut[1]
    IN  IF AlwaysFails(retryIn)
        THEN /\ r.threw
             /\ r.err = PlainError("retryConnection: after maxRetries attempts")
             /\ r.calls = retryIn.maxRetries
             /\ Len(r.sleeps) = retryIn.maxRetries - 1
        ELSE /\ ~r.threw
             /\ r.calls = retryIn.okAt
             /\ Len(r.sleeps) = retryIn.okAt - 1

C3_Witness ==
  /\ retryOut # <<>>
  /\ retryIn.okAt = 0
  /\ retryIn.maxRetries = 3
  /\ retryOut[1].threw
  /\ retryOut[1].calls = 3
  /\ Len(retryOut[1].sleeps) = 2

\* C4: for an operation that always fails and every choice of the options
\* (maxRetries >= 1, backoffFactor >= 2), the delays slept sum to at most
\* initialDelay * (backoffFactor^(maxRetries-1) - 1) / (backoffFactor - 1)
\* and to at most (maxRetries - 1) * maxDelay, and no single sleep exceeds
\* maxDelay.
C4_RetryWaitBound ==
  retryOut # <<>> /\ retryIn.maxRetries >= 1 /\ retryIn.backoffFactor >= 2
    /\ AlwaysFails(retryIn) =>
    LET r == retryOut[1]
    IN  /\ Sum(r.sleeps) * (retryIn.backoffFactor - 1)
             <= retryIn.initialDelay * (Pow(retryIn.backoffFactor, retryIn.maxRetries - 1) - 1)
        /\ Sum(r.sleeps) <= (retryIn.maxRetries - 1) * retryIn.maxDelay
        /\ \A i \in 1..Len(r.sleeps) : r.sleeps[i] <= retryIn.maxDelay

(***************************************************************************)
(* Properties of the transport providers (specification SpecSend).         *)
(***************************************************************************)
\* the target is configured, the event has the shape the adapter reads, and
\* every transport request fails
TransportFailure(in) ==
  /\ in.configTarget # "" \/ in.envTarget # ""
  /\ in.event.shape = (IF in.provider = "sns" THEN "flat" ELSE "nested")
  /\ in.okAt = 0

\* C5: for the SNS and the SQS adapter alike, when the transport request
\* still fails after the retries, send() does not throw and returns a result
\* with success = false and an error message.
C5_SendReturnsFailure ==
  sendOut # <<>> /\ TransportFailure(sendIn) =>
    /\ ~sendOut[1].threw
    /\ sendOut[1].result.success = FALSE
    /\ sendOut[1].result.error # ""

(***************************************************************************)
(* Properties of the event handler (specification SpecHandler).            *)
(***************************************************************************)
\* the record body is not JSON, or the envelope's Message cannot be read
Unparsable(body) ==
  \/ parseSnsMessage(body).threw
  \/ parseNotificationEvent(parseSnsMessage(body).val).threw

\* the event carried by a parsable record body
EventOf(body) == parseNotificationEvent(parseSnsMessage(body).val).val

\* a required property of the data model is missing from the value
LacksRequired(v) == ~Truthy(v) \/ v.kind # "object" \/ v.falsy # {}

ValidBody(body) == ~Unparsable(body) /\ ~LacksRequired(EventOf(body))

Before(steps, a, b) ==
  \A j \in 1..Len(steps) : steps[j] = b => \E i \in 1..(j - 1) : steps[i] = a

\* C6: for every record whose body cannot be parsed or whose event lacks a
\* required property, processRecord throws without any call to decrypt, to
\* the key-management service or to the sink; and whenever decrypt or the
\* sink is called, the validation step came before it.
C6_ValidationBeforeDecryption ==
  handlerOut.direct # <<>> =>
    LET out == handlerOut.direct[1]
    IN  /\ (Unparsable(handlerIn.body) \/ LacksRequired(EventOf(handlerIn.body))) =>
              /\ out.threw
              /\ out.decryptCalls = <<>>
              /\ out.kmsCalls = 0
              /\ out.sinkCalls = <<>>
        /\ Before(out.steps, "validate", "decrypt")
        /\ Before(out.steps, "validate", "sink")

\* an event without a required property, under a configuration in which a
\* valid event would have been decrypted
C6_Witness ==
  /\ handlerOut.direct # <<>>
  /\ handlerIn.encryptionEnabled
  /\ ~Unparsable(handlerIn.body)
  /\ EventOf(handlerIn.body).kind = "object"
  /\ EventOf(handlerIn.body).falsy = {"payload.activityBy.metadata"}
  /\ handlerOut.direct[1].threw
  /\ handlerOut.direct[1].err.code = INVALID_EVENT
  /\ handlerOut.direct[1].decryptCalls = <<>>

\* C7: processPayload as a function of the flag it tests (in the handler
\* the flag is the constant of SAMPLE_TENANT_CONFIG, which is off).  With
\* encryption.enabled off, decrypt is never called and, for a valid
\* event, the payload is payload.data unchanged; with the flag on, a valid
\* event makes exactly one decrypt call, with payload.data and the context
\* built from header.tenant, and when that call fails processRecord throws
\* and neither a payload nor a sink call is produced.
C7_BranchOnEncryptionFlag ==
  handlerOut.direct # <<>> =>
    LET out == handlerOut.direct[1]
        ev == EventOf(handlerIn.body)
    IN  IF ~handlerIn.encryptionEnabled
        THEN /\ out.decryptCalls = <<>>
             /\ out.kmsCalls = 0
             /\ ValidBody(handlerIn.body) =>
                  /\ out.payload = [kind |-> "wrapper", data |-> ev.data]
                  /\ \A i \in 1..Len(out.sinkCalls) : out.sinkCalls[i].data = JSONstringify(ev)
        ELSE ValidBody(handlerIn.body) =>
               /\ out.decryptCalls = <<[data |-> ev.data, context |-> ev.tenant]>>
               /\ decrypt(ev.data, ev.tenant, handlerIn.kmsOkAt).threw =>
                    /\ out.threw
                    /\ out.payload = Null
                    /\ out.sinkCalls = <<>>

\* the flag as the handler has it (off), a routed valid event whose
\* payload.data is a ciphertext of another context: no decrypt call is made
\* and the ciphertext is passed on as the payload and forwarded to the sink
C7_Witness ==
  /\ handlerOut.direct # <<>>
  /\ ~handlerIn.encryptionEnabled
  /\ handlerIn.body = JSONstringify(Event(APPLICATION_CREATE, OtherContextCipher))
  /\ handlerIn.sinkOk
  /\ handlerOut.direct[1].decryptCalls = <<>>
  /\ handlerOut.direct[1].kmsCalls = 0
  /\ ~handlerOut.direct[1].threw
  /\ handlerOut.direct[1].payload = [kind |-> "wrapper", data |-> OtherContextCipher]
  /\ Len(handlerOut.direct[1].sinkCalls) = 1

\* C9 as stated: for every JSON event body, processing the body and
\* processing the envelope {Type: "Notification", Message: body} have the
\* same outcome.
C9_EnvelopeToleranceAnyBody ==
  handlerOut.direct # <<>> /\ handlerOut.wrapped # <<>> /\ handlerIn.body.text = "json" =>
    handlerOut.direct[1] = handlerOut.wrapped[1]

\* the value is itself an object of envelope shape
EnvelopeShaped(v) ==
  v.kind = "object" /\ v.Type = "Notification" /\ TruthyField(v.Message)

\* C9 (amended): for every JSON event body whose value is not null and is
\* not itself an object with Type = "Notification" and a non-empty Message,
\* processing the body and processing the envelope around it have the same
\* outcome: same result or error, same event, same steps, same decrypt and
\* sink calls.
C9_EnvelopeTolerance ==
  handlerOut.direct # <<>> /\ handlerOut.wrapped # <<>> /\ handlerIn.body.text = "json"
    /\ handlerIn.body.val.kind # "null" /\ ~EnvelopeShaped(handlerIn.body.val) =>
    handlerOut.direct[1] = handlerOut.wrapped[1]

C9_Witness ==
  /\ handlerOut.direct # <<>>
  /\ handlerOut.wrapped # <<>>
  /\ handlerIn.body = JSONstringify(Event(APPLICATION_UPDATE, GoodCipher))
  /\ handlerIn.encryptionEnabled
  /\ ~handlerOut.wrapped[1].threw
  /\ Len(handlerOut.wrapped[1].sinkCalls) = 1
  /\ Len(handlerOut.wrapped[1].decryptCalls) = 1

(***************************************************************************)
(* Properties of the handler inside the queue consumer (Spec).             *)
(***************************************************************************)
ErrorClass(e) == <<e.name, e.code>>

ValidationClasses == {ErrorClass(invalidEvent("id"))}

SinkFailureClasses ==
  { ErrorClass(processSalesforceCaseCreate(Event(APPLICATION_CREATE, DataObject),
                                           PlainObject, FALSE).err),
    ErrorClass(processApplicationUpdate(Event(APPLICATION_UPDATE, DataObject),
                                        PlainObject, FALSE).err) }

DeleteRequested(l, q, id) == \E j \in Deletes(l, q) : trace[l][q][j].id = id

\* payload.data of the event is the base64 text of a ciphertext that the
\* key-management service does not decrypt under the context of header.tenant
Undecryptable(event) ==
  /\ JsonType(event.data) = "string"
  /\ BufferFrom(event.data).val.bytes = "ciphertext"
  /\ ~KmsCanDecrypt(BufferFrom(event.data).val, EncryptionContextOf(event))

C10_UnknownEventIsNoOp ==
  \A l \in LoopIds, q \in AllQueues :
    last[l][q] # <<>> =>
      LET rec == last[l][q][1].record
          out == last[l][q][1].out
      IN  (/\ ValidBody(rec.body)
           /\ EventOf(rec.body).event_name \notin RoutedNames) =>
            /\ ~encryptionEnabled => \E i \in 1..Len(out.steps) : out.steps[i] = "route"
            /\ (\E i \in 1..Len(out.steps) : out.steps[i] = "route") =>
                 /\ ~out.threw
                 /\ out.sinkCalls = <<>>
                 /\ trace[l][q][HandleAt(l, q, rec.messageId)].ok
                 /\ qpc[l][q] = "delete" \/ DeleteRequested(l, q, rec.messageId)

C10_Witness ==
  \E l \in LoopIds, q \in AllQueues :
    /\ last[l][q] # <<>>
    /\ ValidBody(last[l][q][1].record.body)
    /\ EventOf(last[l][q][1].record.body).event_name = USER_UPDATE
    /\ ~last[l][q][1].out.threw
    /\ DeleteRequested(l, q, last[l][q][1].record.messageId)
    /\ last[l][q][1].record.messageId \notin IdsOf(queue[q])

(***************************************************************************)
(* Properties of the provider factory (specification SpecFactory).         *)
(***************************************************************************)
CallsMade == {c \in CallIds : gp[c].pc # "idle"}

\* the calls made before call c with the same provider type
EarlierCalls(c) == {d \in CallsMade : d < c /\ gp[d].type = gp[c].type}

\* C11: any two getProvider calls with the same type return the same
\* instance, the cache holds at most one entry per type, and the provider's
\* initialize is run only by the first call made for that type.
C11_ProviderCacheStable ==
  /\ \A c, d \in CallsMade :
        gp[c].pc = "returned" /\ gp[d].pc = "returned" /\ gp[c].type = gp[d].type
          => gp[c].ret = gp[d].ret
  /\ \A t \in ProviderTypes : Cardinality({e \in providers : e[1] = t}) <= 1
  /\ \A i \in 1..Len(initRuns) : EarlierCalls(initRuns[i]) = {}

(***************************************************************************)
(* Properties of the validation service (specification SpecValidator).     *)
(***************************************************************************)
\* a fully populated event: every required property, no other property,
\* structured data
FullyPopulated(v) ==
  /\ v.kind = "object" /\ v.falsy = {}
  /\ v.Type = "absent" /\ v.Message.s = "absent"
  /\ JsonType(v.data) = "object"

\* a fully populated event without the required property at path p
LacksOnly(v, p) ==
  /\ v.kind = "object" /\ v.falsy = {p}
  /\ v.Type = "absent" /\ v.Message.s = "absent"

ErrorsOf(out) == {out[i] : i \in 1..Len(out)}

\* C12 as stated: for an event that lacks one required property, validateEvent
\* returns an error whose path is the path of the missing property; for a
\* fully populated event it returns the empty list.
C12_ValidationCompletenessByPath ==
  validateOut # <<>> =>
    /\ \A p \in PathSet :
          LacksOnly(validateIn, p)
            => \E e \in ErrorsOf(validateOut[1]) : e.path = Pointer(p)
    /\ FullyPopulated(validateIn) => validateOut[1] = <<>>

\* C12, amended: for an event that lacks one required property, validateEvent
\* returns a `required` error whose path is the path of the object that
\* should hold the property and whose params name the property; for a
\* fully populated event it returns the empty list.
C12_ValidationCompleteness ==
  validateOut # <<>> =>
    /\ \A p \in PathSet :
          LacksOnly(validateIn, p)
            => \E e \in ErrorsOf(validateOut[1]) :
                 /\ e.keyword = "required"
                 /\ e.path = Pointer(FieldOf(p).parent)
                 /\ e.param = FieldOf(p).name
    /\ FullyPopulated(validateIn) => validateOut[1] = <<>>

C12_Witness ==
  /\ validateOut # <<>>
  /\ LacksOnly(validateIn, "header.tenant.appId")
  /\ validateOut[1] # <<>>
  /\ \A e \in ErrorsOf(validateOut[1]) : e.path # Pointer("header.tenant.appId")

(***************************************************************************)
(* Cancellation of the queue consumer (specification SpecLifecycleLive).   *)
(***************************************************************************)
LoopRunning(c) == service.loops[c] \in {"polling", "delay"}

\* C13: a loop test that observes the cleared flag starts no poll cycle and
\* ends the loop, an ended loop starts nothing, and every running loop
\* eventually ends once stopProcessing has cleared the flag.
C13_Cancellation ==
  /\ [][\A c \in StartIds :
          /\ service.loops[c] = "delay" /\ ~service.isProcessing =>
                service'.loops[c] \in {"delay", "exited"}
          /\ service.loops[c] = "exited" => service'.loops[c] = "exited"]_vars
  /\ \A c \in StartIds :
       (LoopRunning(c) /\ ~service.isProcessing) ~> (service.loops[c] = "exited")

(***************************************************************************)
(* Properties of the encryption service (specification SpecKms).           *)
(***************************************************************************)
\* the contexts of the requests made by a call
ContextsSent(out) == {out.command[i].EncryptionContext : i \in 1..Len(out.command)}

\* what the claim requires besides the value of the round trip: the
\* caller's context reaches the service unchanged, decrypt under another
\* context fails, and the handler decrypts under the triple of header.tenant
ContextBinding ==
  /\ kmsOut.enc # <<>> => ContextsSent(kmsOut.enc[1]) \subseteq {kmsIn.context}
  /\ kmsOut.same # <<>> =>
        ~kmsOut.same[1].threw /\ ContextsSent(kmsOut.same[1]) = {kmsIn.context}
  /\ kmsOut.other # <<>> =>
        /\ ContextsSent(kmsOut.other[1]) = {kmsIn.other}
        /\ kmsIn.other # kmsIn.context => kmsOut.other[1].threw
  /\ kmsOut.handler # <<>> =>
        /\ kmsOut.handler[1].decryptCalls =
             <<[data |-> kmsOut.enc[1].val, context |-> kmsIn.context]>>
        /\ kmsIn.data = JSONstringify(PlainObject) =>
             ~kmsOut.handler[1].threw /\ kmsOut.handler[1].payload = PlainObject

WellFormedString(data) == IsString(data) /\ data # SurrogateText

SnsPublished ==
  IF sendOut # <<>> /\ sendIn.provider = "sns" THEN sendOut[1].command ELSE <<>>

\* C15: a message the SNS adapter publishes to a FIFO topic carries the
\* ordering key "{financialInstitutionId}-{appId}-{event type}" and the
\* deduplication key event.id, both determined by the event alone (whatever
\* the configuration split and the number of failed requests); a message
\* published to a topic that is not FIFO carries neither key.
C15_FifoKeys ==
  \A i \in 1..Len(SnsPublished) :
    LET c == SnsPublished[i]
        e == sendIn.event
    IN  IF c.target = "arn:topic.fifo"
        THEN /\ c.groupId = <<e.tenant.financialInstitutionId \o "-" \o e.tenant.appId
                                \o "-" \o e.name>>
             /\ c.dedupId = <<e.id>>
        ELSE c.groupId = <<>> /\ c.dedupId = <<>>

\* a message for the second event was published to the FIFO topic named by
\* the configuration while the environment names another topic
C15_Witness ==
  /\ Len(SnsPublished) = 1
  /\ sendIn.configTarget = "arn:topic.fifo"
  /\ sendIn.envTarget = "arn:topic"
  /\ sendIn.event.id = "e2"
  /\ SnsPublished[1].groupId = <<"fi1-app2-user.update">>
  /\ SnsPublished[1].dedupId = <<"e2">>

(***************************************************************************)
(* Configuration errors (specification SpecConfig).                        *)
(***************************************************************************)
\* the messages handed to the transport by the send() that ran
Dispatched == IF sendOut # <<>> THEN sendOut[1].command ELSE <<>>

SendFailed == sendOut[1].threw \/ ~sendOut[1].result.success

\* C16: send() with no target in config.config and no provider-level default
\* fails without a transport request and without a backoff sleep; encrypt
\* and generateDataKey with neither a key id argument nor a default key id
\* fail without a request to the key-management service; a target supplied
\* by config.config is the one used, whatever the default.
C16_ConfigErrorsNotRetried ==
  /\ sendOut # <<>> /\ sendIn.configTarget = "" /\ sendIn.envTarget = "" =>
        /\ SendFailed
        /\ sendOut[1].calls = 0
        /\ sendOut[1].sleeps = <<>>
        /\ Dispatched = <<>>
  /\ sendIn.configTarget # "" =>
        \A i \in 1..Len(Dispatched) : Dispatched[i].target = sendIn.configTarget
  /\ kmsIn.keyId = "" /\ kmsIn.envKeyId = "" =>
        /\ \A i \in 1..Len(kmsOut.enc) :
              /\ kmsOut.enc[i].threw
              /\ kmsOut.enc[i].kmsCalls = 0
              /\ kmsOut.enc[i].command = <<>>
        /\ \A i \in 1..Len(kmsOut.key) :
              /\ kmsOut.key[i].threw
              /\ kmsOut.key[i].kmsCalls = 0
              /\ kmsOut.key[i].command = <<>>

\* send() ran with a configured target differing from the default and
\* dispatched to it, while encrypt and generateDataKey ran without any key id
C16_Witness ==
  /\ Len(Dispatched) = 1
  /\ sendIn.configTarget = "arn:topic"
  /\ sendIn.envTarget = "arn:topic.fifo"
  /\ Dispatched[1].target = "arn:topic"
  /\ kmsIn.keyId = "" /\ kmsIn.envKeyId = ""
  /\ kmsOut.enc # <<>> /\ kmsOut.enc[1].threw
  /\ kmsOut.key # <<>> /\ kmsOut.key[1].threw

(***************************************************************************)
(* Producer-side error propagation (specification SpecApi).                *)
(***************************************************************************)
\* the dispatch did not publish: no topic for the event, or the provider
\* reported a failure
DispatchFailed(out) ==
  out.sent = <<>> \/ ~out.sent[1].result.success

\* C17: processEvent never throws; for every outcome of the dispatch it
\* returns a result with success and timestamp, and a failed dispatch,
\* an unconfigured topic and a provider failure included, is returned with
\* success = false.
C17_StructuredResult ==
  \A i \in 1..Len(apiOut) :
    /\ ~apiOut[i].threw
    /\ apiOut[i].val.timestamp # ""
    /\ DispatchFailed(apiOut[i]) => apiOut[i].val.success = FALSE

(***************************************************************************)
(* Message body and routing attributes (specification SpecSend).           *)
(***************************************************************************)
\* an event that passes the schema has the nested shape (id, header, payload)
SchemaValid(event) == event.shape = "nested"

\* C18: for a schema-valid event and a configured target, the SNS and the
\* SQS adapter alike hand the transport one message whose body is the
\* serialization of the whole event and whose attributes are eventId = id,
\* eventType = header.event_name, eventVersion = header.event_version,
\* source = payload.activityBy.source and the three fields of header.tenant.
C18_MessageContract ==
  sendOut # <<>> /\ SchemaValid(sendIn.event)
    /\ ResolveTarget(sendIn.configTarget, sendIn.envTarget) # "" =>
      /\ Len(sendOut[1].command) = 1
      /\ sendOut[1].command[1].body = JSONstringify(sendIn.event)
      /\ sendOut[1].command[1].attributes =
           [eventId |-> sendIn.event.id,
            eventType |-> sendIn.event.name,
            eventVersion |-> sendIn.event.version,
            source |-> sendIn.event.source,
            financialInstitutionId |-> sendIn.event.tenant.financialInstitutionId,
            appId |-> sendIn.event.tenant.appId,
            environment |-> sendIn.event.tenant.environment]

(***************************************************************************)
(* Sink failure (Spec).                                                    *)
(***************************************************************************)
\* the sink call made for the record last handed over in loop l failed: the
\* handler called the sink exactly once for that record, the handler
\* invocation ended with a thrown error, and the poll has made no
\* DeleteMessage request for the message
SinkFailureNotDeleted(l, q) ==
  last[l][q] # <<>> /\ last[l][q][1].sinkFailed =>
    /\ Len(last[l][q][1].out.sinkCalls) = 1
    /\ last[l][q][1].out.threw
    /\ ~DeleteRequested(l, q, last[l][q][1].record.messageId)

PollFinished(l, q) == loop[l] = "polling" /\ qpc[l][q] = "done"

\* C20: queues are consumed independently: once the poll of a configured
\* queue A has finished, the loop can go on to A's next poll cycle whatever
\* the state of the ReceiveMessage call or of the batch of any other queue B.
C20_IndependentQueues ==
  \A l \in LoopIds : \A a \in queueUrls : PollFinished(l, a) => ENABLED CycleEnd(l)

(***************************************************************************)
(* Concurrent first use of the provider cache (specification SpecFactory). *)
(***************************************************************************)
\* the calls for type t that have returned a provider
Returned(t) == {c \in CallsMade : gp[c].pc = "returned" /\ gp[c].type = t}

\* no call for type t is suspended at the await of initialize
Settled(t) == \A c \in CallIds : ~(gp[c].pc = "awaiting" /\ gp[c].type = t)

\* C21: however getProvider calls for one type overlap at the await of
\* initialize, all the calls that return a provider return the same
\* instance, and once they have all finished the cache holds exactly one
\* entry for the type, with that instance.
C21_ConcurrentFirstUse ==
  \A t \in ProviderTypes :
    /\ \A c, d \in Returned(t) : gp[c].ret = gp[d].ret
    /\ Returned(t) # {} /\ Settled(t) =>
          \E e \in providers :
            /\ {x \in providers : x[1] = t} = {e}
            /\ \A c \in Returned(t) : gp[c].ret = e[2]

\* two calls both ran initialize, so they overlapped at the await, and both
\* have returned
C21_Witness ==
  /\ Len(initRuns) >= 2
  /\ \A i \in 1..Len(initRuns) : gp[initRuns[i]].pc = "returned"
  /\ gp[initRuns[1]].initOk /\ gp[initRuns[2]].initOk
  /\ providers = {<<AWS_SNS, awsSnsProvider>>}

(***************************************************************************)
(* Failed getProvider calls (specification SpecFactory).                   *)
(***************************************************************************)
\* the calls for type t that ended with an error
Threw(t) == {c \in CallsMade : gp[c].pc = "threw" /\ gp[c].type = t}

\* call c is made in this step, for type t
CallMade(c, t) == gp[c].pc = "idle" /\ gp'[c].pc # "idle" /\ gp'[c].type = t

HasEntry(t) == \E e \in providers : e[1] = t

\* C29 as stated: after a getProvider call for a type has failed, the next
\* call for that type runs initialize again.
C29_NextCallInitializes ==
  [][\A c \in CallIds, t \in ProviderTypes :
       CallMade(c, t) /\ Threw(t) # {} => initRuns' = Append(initRuns, c)]_vars

\* C29: a call for an unsupported type, or whose initialize throws, ends
\* with the error; failed calls add no entry to the cache, a call that
\* fails after the await leaves the cache as it is, and a call made for a
\* supported type while the cache holds no entry for it runs initialize
\* (again, if an earlier call failed).
C29_FailedCallLeavesCache ==
  /\ [](\A c \in CallsMade :
          /\ gp[c].type # AWS_SNS => gp[c].pc = "threw"
          /\ gp[c].pc \in {"returned", "threw"}
                /\ (\E i \in 1..Len(initRuns) : initRuns[i] = c) /\ ~gp[c].initOk
                => gp[c].pc = "threw")
  /\ [](\A t \in ProviderTypes :
          {c \in CallsMade : gp[c].type = t} = Threw(t) => ~HasEntry(t))
  /\ [][\A c \in CallIds :
          gp[c].pc # "threw" /\ gp'[c].pc = "threw" => providers' = providers]_vars
  /\ [][\A c \in CallIds :
          CallMade(c, AWS_SNS) /\ ~HasEntry(AWS_SNS) => initRuns' = Append(initRuns, c)]_vars

\* a first call failed in initialize, and a second call, made with the cache
\* still empty, ran initialize again and cached the provider
C29_Witness ==
  /\ gp[1].pc = "threw" /\ gp[1].type = AWS_SNS
  /\ initRuns = <<1, 2>>
  /\ gp[2].pc = "returned" /\ gp[2].initOk
  /\ providers = {<<AWS_SNS, awsSnsProvider>>}

(***************************************************************************)
(* Termination of retryConnection (specification SpecRetry).               *)
(***************************************************************************)
\* C30: retryConnection ends either with the result of a successful
\* invocation or with a raised error, never with neither; with
\* maxRetries <= 0 the operation is not invoked, nothing is slept and an
\* error is raised; with maxRetries >= 1 the operation is invoked at least
\* once and at most maxRetries times, with fewer sleeps than invocations.
C30_RetryTerminates ==
  \A i \in 1..Len(retryOut) :
    LET r == retryOut[i]
    IN  /\ IF r.threw THEN r.err # NoError
                      ELSE r.err = NoError /\ r.calls = retryIn.okAt
        /\ retryIn.maxRetries <= 0 =>
              r.threw /\ r.calls = 0 /\ r.sleeps = <<>>
        /\ retryIn.maxRetries >= 1 =>
              /\ r.calls >= 1 /\ r.calls <= retryIn.maxRetries
              /\ Len(r.sleeps) < r.calls

\* a negative maxRetries with an operation that would have succeeded at once
C30_Witness ==
  /\ retryOut # <<>>
  /\ retryIn.maxRetries = -1
  /\ retryIn.okAt = 1
  /\ retryOut[1].threw
  /\ retryOut[1].calls = 0

(***************************************************************************)
(* Events of several records (specification SpecLambda).                   *)
(***************************************************************************)
\* C22: when processSqsEvent is invoked with several records and the
\* processing of one of them fails, the records after it are still
\* processed: processRecord is called for every record of the event.
C22_FailureIsPerRecord ==
  \A i \in 1..Len(handlerOut) :
    Len(handlerOut[i].outs) = Len(handlerIn.Records)

(***************************************************************************)
(* Handler validation and the validation service (SpecValidation).         *)
(***************************************************************************)
\* C23: for every candidate event, the validation step of the handler
\* rejects the event if and only if ValidationService.validateEvent returns
\* a non-empty error list for it.
C23_HandlerUsesValidator ==
  \A i \in 1..Len(validateOut) :
    validateOut[i].handler.threw <=> validateOut[i].errors # <<>>

(***************************************************************************)
(* Redelivery.  A handler invocation of queue q for the message that the   *)
(* previous handler invocation of q was for: a poll batch holds a message  *)
(* once, so the two invocations belong to two receipts of the message.     *)
(***************************************************************************)
HandledNow(q) ==
  \E l \in LoopIds :
    /\ Len(trace'[l][q]) = Len(trace[l][q]) + 1
    /\ trace'[l][q][Len(trace'[l][q])].op = "handle"

Redelivered(q) ==
  /\ HandledNow(q)
  /\ prior[q] # <<>>
  /\ prior'[q][1].record.messageId = prior[q][1].record.messageId

\* C24: across successive receipts of the same message, the receive count
\* of the record handed to the handler is larger on the later receipt than
\* on the earlier one.
C24_ReceiveCountGrows ==
  [][\A q \in AllQueues :
       Redelivered(q) =>
         prior'[q][1].record.ApproximateReceiveCount
           > prior[q][1].record.ApproximateReceiveCount]_vars

(***************************************************************************)
(* Order of the handler invocations of one poll batch.                     *)
(***************************************************************************)
\* the number of handler invocations among the first i entries of the trace
HandlesUpTo(l, q, i) == Cardinality({j \in Handles(l, q) : j <= i})

\* the messages of the batch that loop l received from q are handed to the
\* handler one record at a time in receipt order: the k-th handler
\* invocation of the poll is for the k-th message of the batch, it directly
\* follows the end of the iteration for message k-1 (its DeleteMessage
\* request, or its handler invocation if that threw), and the iteration in
\* progress is at the position the trace shows
SequentialInBatch(l, q) ==
  LET n == Cardinality(Handles(l, q))
  IN  /\ n <= Len(batch[l][q])
      /\ \A i \in Handles(l, q) :
           LET k == HandlesUpTo(l, q, i)
           IN  /\ trace[l][q][i].id = batch[l][q][k].id
               /\ k = 1 => i = 1
               /\ k > 1 =>
                    /\ i > 1
                    /\ trace[l][q][i - 1].id = batch[l][q][k - 1].id
                    /\ \/ trace[l][q][i - 1].op = "delete"
                       \/ trace[l][q][i - 1].op = "handle" /\ ~trace[l][q][i - 1].ok
      /\ last[l][q] # <<>> =>
           /\ n >= 1
           /\ last[l][q][1].record = convertToSQSRecord(batch[l][q][n], q)
      /\ qpc[l][q] = "handle" => idx[l][q] = n + 1
      /\ qpc[l][q] = "delete" =>
           /\ idx[l][q] = n
           /\ trace[l][q][Len(trace[l][q])] =
                [op |-> "handle", id |-> batch[l][q][n].id, ok |-> TRUE]

\* the loops whose pollQueue call for q is suspended in a handler invocation
Invoking(q) == {l \in LoopIds : qpc[l][q] = "handle"}

\* C25: within one queue the messages of a poll batch are handed to the
\* handler one record at a time in receipt order: the k-th handler
\* invocation of the poll is for the k-th message of the batch, it directly
\* follows the end of the iteration for message k-1 (its DeleteMessage
\* request, or its handler invocation if that threw), at the position the
\* trace shows, and no two handler invocations of the queue are in progress
\* at the same time.
C25_SequentialInReceiptOrder ==
  \A q \in AllQueues :
    /\ \A l \in LoopIds : SequentialInBatch(l, q)
    /\ Cardinality(Invoking(q)) <= 1

(***************************************************************************)
(* A failing DeleteMessage request.                                        *)
(***************************************************************************)
BatchIndex(l, q, id) == CHOOSE k \in 1..Len(batch[l][q]) : batch[l][q][k].id = id

\* the DeleteMessage request at position j of the trace failed: the
\* iteration for the next message of the batch follows; stillQueued tells
\* whether the message is also required to be on the queue
DeleteFailureContained(l, q, j, stillQueued) ==
  LET id == trace[l][q][j].id
      k == BatchIndex(l, q, id)
  IN  /\ stillQueued => \E m \in 1..Len(queue[q]) : queue[q][m] = batch[l][q][k]
      /\ IF k < Len(batch[l][q])
         THEN \/ /\ j = Len(trace[l][q])
                 /\ qpc[l][q] = "handle"
                 /\ idx[l][q] = k + 1
              \/ /\ j < Len(trace[l][q])
                 /\ trace[l][q][j + 1].op = "handle"
                 /\ trace[l][q][j + 1].id = batch[l][q][k + 1].id
         ELSE /\ j = Len(trace[l][q])
              /\ qpc[l][q] \in {"done", "idle"}

FailedDeletesContained(stillQueued) ==
  \A l \in LoopIds, q \in AllQueues : \A j \in Deletes(l, q) :
    ~trace[l][q][j].ok => DeleteFailureContained(l, q, j, stillQueued)

\* a loop ends only through stopProcessing
LoopEndsOnlyWhenStopped ==
  \A l \in LoopIds : loop[l] # "exited" /\ loop'[l] = "exited" => ~isProcessing

\* a step takes a message off a queue only as the successful DeleteMessage
\* request of a poll whose latest handler invocation was for that message
\* and returned
RemovedOnlyAfterOwnSuccess ==
  \A q \in AllQueues : \A id \in IdsOf(queue[q]) \ IdsOf(queue'[q]) :
    \E l \in LoopIds :
      /\ trace[l][q] # <<>>
      /\ trace[l][q][Len(trace[l][q])] = [op |-> "handle", id |-> id, ok |-> TRUE]
      /\ trace'[l][q] = Append(trace[l][q], [op |-> "delete", id |-> id, ok |-> TRUE])

\* a failing DeleteMessage request takes nothing off the queue
FailedDeleteKeepsQueue ==
  \A l \in LoopIds, q \in AllQueues :
    (/\ Len(trace'[l][q]) = Len(trace[l][q]) + 1
     /\ trace'[l][q][Len(trace'[l][q])].op = "delete"
     /\ ~trace'[l][q][Len(trace'[l][q])].ok) => queue' = queue

\* a handler invocation for the message whose previous invocation returned:
\* the message was received again, by the next poll of the loop after the
\* DeleteMessage request failed or by the poll of another loop
RedeliveredAfterSuccess(q) == Redelivered(q) /\ ~prior[q][1].threw

\* on redelivery the same event is handed to the handler and forwarded to
\* the sink again
SameEventOnRedelivery ==
  \A q \in AllQueues :
    RedeliveredAfterSuccess(q) =>
      /\ prior'[q][1].record = prior[q][1].record
      /\ prior'[q][1].sinkCalls = prior[q][1].sinkCalls

ForwardsUnchanged(out, v) ==
  /\ out.event # Null => out.event = v
  /\ \A i \in 1..Len(out.sinkCalls) :
       /\ out.sinkCalls[i].type = v.event_name
       /\ out.sinkCalls[i].data = JSONstringify(v)
       /\ JSONparse(out.sinkCalls[i].data).val.data = v.data

\* C26: processRecord does not change the event: the event it has parsed is
\* the value carried by the record body (directly, or as the Message of an
\* SNS envelope), and what it forwards to the sink is the serialization of
\* that value with type = header.event_name, payload.data being the data
\* received whether or not it was decrypted.
C26_EventNotMutated ==
  /\ (handlerOut.direct # <<>> /\ handlerIn.body.text = "json"
        /\ handlerIn.body.val.kind # "null" /\ ~EnvelopeShaped(handlerIn.body.val)) =>
       ForwardsUnchanged(handlerOut.direct[1], handlerIn.body.val)
  /\ (handlerOut.wrapped # <<>> /\ handlerIn.body.text = "json") =>
       ForwardsUnchanged(handlerOut.wrapped[1], handlerIn.body.val)

\* an encrypted application.create event that was decrypted and forwarded
C26_Witness ==
  /\ handlerOut.direct # <<>>
  /\ handlerIn.encryptionEnabled
  /\ handlerIn.body = JSONstringify(Event(APPLICATION_CREATE, GoodCipher))
  /\ ~handlerOut.direct[1].threw
  /\ Len(handlerOut.direct[1].decryptCalls) = 1
  /\ handlerOut.direct[1].payload # [kind |-> "wrapper", data |-> GoodCipher]
  /\ handlerOut.direct[1].sinkCalls =
       <<[type |-> APPLICATION_CREATE, data |-> handlerIn.body]>>

(***************************************************************************)
(* Polling loops of one service instance (SpecLifecycle).                  *)
(***************************************************************************)
ActiveLoops == {c \in StartIds : service.loops[c] \in {"polling", "delay"}}

\* C27: at most one polling loop is active per service instance, for every
\* interleaving of onModuleInit and stopProcessing calls: no two loops are
\* ever polling the queues at the same time.
C27_SingleLoop ==
  /\ Cardinality(ActiveLoops) <= 1
  /\ Cardinality({c \in StartIds : service.loops[c] = "polling"}) <= 1

====
